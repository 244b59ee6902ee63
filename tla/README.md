# A verification project for encar_parser

TLA+ models of the parts of `encar_parser` whose correctness depends on order,
interleaving, interruption or time, the TLC runs that check them on small
instances, and TLAPS proofs of the most important results for every instance.
Paths below are relative to `encar_parser/` unless they begin elsewhere.

Run a model with `tlc -config X.cfg M`, a proof with `tlapm M.tla`. `PROJECT.json`
lists the runs, the lines each definition stands for, the hazards of the code
with the properties that guard against them, and the disagreements found
between the code and what its comments and tests say.

## 1. Inventory

The program mirrors car listings of encar.com into PostgreSQL. A pool of
*search models* (`models.yaml`, synced into the table `search_models`) says what
to search for; a *walk* of a model pages through encar's list, fetches every
listed car, upserts it into `cars` and links it to the model in
`car_model_matches`; a *dedup pass* marks one listing per physical car as
visible; the web application shows the visible rows (the *vitrine*).

| Component | State | Operations | Interacts with | Modelled in |
|---|---|---|---|---|
| Dedup (`dedup.py`) | `cars.is_primary` | group by key, photo fallback, choose the primary, `run_dedup` | rewrites the whole `cars` table, committed by its caller | `Dedup`, `Vitrine`, `Catalog` |
| Cars table (`db/`) | `cars`, `car_model_matches` | `upsert_car`, `link_car_to_model` | every walk, every pass, the vitrine | `Catalog`, `ListWalk` |
| Parsers (`parsers/`, `translations.py`) | none | list page to ids, detail to row | their rows are what dedup compares | `Listing`, `Payloads` |
| Walk (`pipeline.py`) | page, items, counts; `last_seen_at`, `last_run_at` | `run_model` (full), `run_model_incremental` | the list API through a fetcher, the session | `ListWalk` |
| Fetchers (`fetchers/`) | HTTP client, browser, open pages | attempts with back-off, fallback to a browser, start, close | every request of a walk | `Fetch` |
| Backfill (`backfill.py`, `cli.py` 488-620) | the JSON state file, the memory of the command | load, filter, walk, save, reset | `run_model`, the operator's shell, the file system | `Backfill`, `Ledger` |
| Scheduler (`scheduler.py`) | none | `bucket_for`, `filter_by_cooldown`, `plan_today` | the calendar, `search_models` | `Scheduler`, `Rotation` |
| Planner (`plan.py`) | a cache of counts | `plan`, `plan --days`, `plan --probe` | announces what the scheduler will do | `Planner` |
| run-incremental (`cli.py` 336-483) | one database session for all models of the day | plan, walk each model, dedup | cron (`docker/cron/crontab:16`, daily), scheduler, walk, dedup | `RunSession` |
| Pool construction (`build_pool.py`) | none | candidates for a pair, probe, choose, write items and report | writes `models.yaml` | `BuildPool`, `Pool` |
| Pool validation (`validate_pool.py`) | none | probe every item, disable the empty ones | rewrites `models.yaml` | `Pool` |
| Sync (`cli.py` 67-111) | `search_models` | upsert row by row from YAML, disable the rest | copies `models.yaml` into the table | `Pool` |
| Image proxy (`web/img_proxy.py`, `photos.py`) | TTL and LRU cache | look up, fetch, put, evict; photo to link | web requests, the CDN | `Photos`, `ImageCache` |
| Web app (`web/app.py`, `web/links.py`) | `model_overrides` | pages, the override form | reads the tables | `Overrides` (the form) |
| Rate limiting, URLs, logs, settings | | | | not modelled (section 5) |

What is hard here:

- **Interleaving.** Cron, a backfill that lasts for days, a manual `dedup`, a
  sync and the pool tools are separate processes that nothing keeps apart. Each
  upsert and each pass is several SQL statements at READ COMMITTED; a sync
  commits row by row; `models.yaml` is read long before it is rewritten.
- **Failure inside a session.** The code never rolls back. In SQLAlchemy 2.0 a
  flush that fails leaves the session refusing every later statement and
  expires the objects attached to it, so that reading `sm.slug` raises too.
  `expire_on_commit=False` (`db/session.py:34`) does not change that.
- **Interruption.** Walks and backfills last for hours, the container has
  little memory, and what was done must be recoverable from the tables
  and the state file alone. `models.yaml` is truncated before it is filled.
- **Inference.** The incremental walk concludes from the first car of a page that
  all cars behind it are known. That is a claim about the history of the table.
- **Time.** Cooldowns, a feed that moves while it is read, a rotation tied to
  the day of the year, a plan for days to come that is made in another time zone
  than the runs, entries of a cache that expire.
- **A service one cannot rely on.** encar's Count may be missing or wrong, its
  entries malformed, and past about 1000 results its pages are empty.
- **Agreement of two modules.** The key of dedup is made of what either of two
  parsers makes of a payload; a link made by `photos.py` is judged by
  `img_proxy.py`; the scheduler's day is foretold by the planner.

What makes each component correct:

- Dedup and parsers: a listing is hidden only behind a newer visible listing of
  the same car; a car is visible once, however its payload spells it.
- Cars table: the same under any interleaving, up to rows just written, and the
  flags become right once writing stops.
- Walk: a walk that ends has covered its list, and a listing that stays is linked
  in the end, as far as encar's answers allow it.
- Fetchers: a request reaches the browser exactly when the API blocked, limited
  or did not answer it; nothing is left open; the command ends.
- Backfill: the file never lists a model that was not walked; what
  it records is neither forgotten nor walked again, a kill costs one completion at
  most; a backfill that is run again finishes.
- Rotation and planner: every model comes up, with a bounded wait; what a plan
  announces for a date takes place on that date.
- run-incremental: no model is deferred without having been walked; stored cars
  are folded.
- Pool: a sync that ends leaves the pool it read; a validation disables the
  empty models only; file and table agree in the end.
- Web: no picture is older than the TTL and one request, the least recent is evicted, a
  thumbnail that is shown can be fetched; a save is shown.

## 2. Modules

| Module | Models | Built on |
|---|---|---|
| `Dedup` | `make_key`, `select_primary`, both groupings, as set comprehensions | |
| `Lists` | a list comprehension, as a recursive function | |
| `Listing` | `parse_search_list` and `parse_car_detail` in both of their shapes | `Dedup`, `Lists` |
| `Payloads` | encar's cars, what its payloads may say of them and in how many spellings, `EachCarOnce` | `Vitrine`, `Listing` |
| `Vitrine` | abstract: a table, its visible rows, upsert and dedup as single steps | `Dedup` |
| `Catalog` | upserts and passes of several processes, statement by statement | `Vitrine`, which it implements |
| `Scheduler` | `bucket_for`, `filter_by_cooldown`, `plan_today`, the cap of `--max-models` | |
| `Ledger` | abstract: models are walked, then recorded, not walked again, and forgotten by a reset only | |
| `Backfill` | the state file and the backfill commands | `Scheduler`; implements `Ledger` |
| `Rotation` | the buckets over the days of many years and over syncs | `Scheduler` |
| `Planner` | plans, the runs that follow them, the cache of counts | `Rotation`, which it implements |
| `ListWalk` | one walk after the other against a live feed | `Scheduler` |
| `RunSession` | one run-incremental command after the other and its session | `Scheduler` |
| `Fetch` | the requests of a command and its two fetchers | |
| `BuildPool` | the search filters tried for a pair, the winner, the items, the report | `Lists` |
| `Pool` | `models.yaml` and `search_models` under sync, validation, construction and an editor | `BuildPool` |
| `Photos` | photo to link, link to source, as records | |
| `ImageCache` | the cache behind `/img` under overlapping requests | `Photos` |
| `Overrides` | the override form and the page after it | |
| `DataLemmas` | lemmas about least and greatest elements, induction over an interval, recursive functions, list comprehensions, what stands where in a sequence, a sequence without one of its elements | `Lists` |
| `CatalogProofs`, `BackfillProofs`, `RotationProofs`, `RunSessionProofs`, `WalkProofs`, `PoolProofs`, `WebProofs` | theorems, with the lemmas they rest on | the module named (`CatalogProofs`: `Dedup`, `Vitrine`, `Listing` and `Payloads` too; `RotationProofs`: `Planner` too; `WalkProofs`: `ListWalk` and `Fetch`; `WebProofs`: `ImageCache` and `Overrides`) |
| `MC...` | the instances TLC checks | the module named (`MCVitrine`: `Payloads`; `MCRotation`: `Planner`; `MCWeb`: both web modules) |

Definitions without a use in a next-state relation (`BugMerge`, `BugPut`,
`BugFallsBack`, `BeginEarly`, `BucketNoWrap`, ...) are plausible bugs: each stands
before the definition it would replace, and with it in place TLC refutes a
property. This shows that the properties say something about the code.

### Dedup, Listing, Payloads, Vitrine, Catalog

A row is a record of the columns `run_dedup` reads. `Listing` says how a payload
becomes such a row: a JSON object is a function from the keys it has, a text a
sequence of characters of which digits, separators and date marks are told
apart. Numbers with separators, the three spellings of a month, the two shapes
of a detail and of a list, and the two kinds of photo entries are parsed as the
code parses them.

`Payloads` is the other side: a car has a brand, a model, a month, a mileage, a
colour and a photo, a payload in either shape states these or leaves them out
(`Describes`, `Offers`), and a month or a mileage may be written in each of several
ways (`MonthValues`, `MileageValues`). `RowsOf` are the rows that the parsers make
of all that; `Complete` says which payloads leave nothing of the key out.

`Vitrine` keeps the table `cars`, the set `visible` and a history `touched`: the
rows written since the SELECT on which the present flags rest. `Catalog`
replaces its two steps by the statements of the code: `UpsertSelect`, then
`Insert` or `Update` (flush and commit); `DedupSelect`, `DedupReset` (the rows
the first UPDATE covers), `DedupApply` (row locks granted), `DedupCommit`.
`Insert` of an id that has been stored meanwhile breaks the session; `Update`
writes only the columns that differ from what was loaded, which is what the ORM
does (`Merge`). `Exit` is the end of a process at any point, with its
transaction rolled back.

External and therefore assumed: READ COMMITTED, row locks held until commit, the
primary key of `cars`.

### Scheduler, Rotation, Planner

A model is its position in (priority, slug) order, so sorting is the order of
the numbers. `Rotation` lets days pass (`NewDay`), years end with one of the
given lengths, and `Sync` replace the pool; `wait` counts the days since a model
was in the bucket of the day or the pool changed. `Planner` adds `Plan` (one day
with the buckets of the settings, or `--days` days with as many buckets; with
`--probe` the cache of counts is replaced), `Run` (run-incremental takes some of
the ready models of the day) and the age of each model's last run. `plan` and
`ahead` remember the last plan and how many days ago it was made.

The calendar is the one of run-incremental, which takes the date in UTC
(`cli.py:388`). `plan` takes the local date (`plan.py:353`) or the one of `--day`, so
a plan begins with any of the dates `Starts`, in days from the UTC date on which it
is made: 0 or 1 for the local date in Seoul (`deploy/encar.env.example:36`), anything with
`--day`. `YdayIn` is the day of the year of such a date, in this year or
next to it.

### Backfill, Ledger

`cmd[p]` is the memory of the command in shell `p`, `file` the state file, written
atomically (temporary file and rename). The actions follow `walk_backfill`: `Load`,
then per model the save before it (`BeginModel`) and `ModelDone` or `ModelFails`,
then `Finish` and `Exit`. The completion of a model reaches the file with the next
save only. `Kill` is possible at every point, `Sync` between any two; `Kill` also
stands for the handler of a failed walk that raises itself (`backfill.py:210` reads the
slug of an object that a failed flush has expired). `UnderWay` is the model whose
walk is under way, which is what `Ledger` calls `walking`: a save and the begin of
the next model are one step of the ledger, as they are of the code.

### ListWalk

`feed[m]` is encar's list of model `m`, newest first; `Publish` puts a new or modified
listing on top, `Withdraw` removes it, both also during a walk. `FetchPage`, `Store`,
`Link`, `CarFails`, `PageEnd`, `EndWalk` follow `run_model` and
`run_model_incremental`. Ages count in ticks and stop beyond the cooldown, the only
thing they are compared with. `calm` records whether anything has disturbed the
walks so far.

What encar answers is not taken for granted. `depth` is the number of results it
serves of a list (`pipeline.py:195`): a `Page` past it is empty, and one across it
is cut. `FetchPage` lets the Count be missing (`None`) or any of `Counts`, right or wrong,
keeps that of the first page, and lets `parse_search_list` skip any entries of the
page as malformed (`Parsed`), which makes a full page look short. An answer is
*sound* if all of its entries were parsed and the Count kept, if there is one, is
not below the length of the list (`TooLow`); an unsound one ends `calm`.

### RunSession

`attached` says whether the search models still belong to the session (only for
the first model of a command, because `expunge_all` follows it), `dead` whether the
session needs a rollback. `RowRejected` is a flush that fails, `ConnectionLost` a
statement that fails without a flush.

### Fetch

A command opens the client and starts the browser part by part (`StartPart`; any
part may raise, `StartFails`, after which the command goes on without a browser
and what was started is referred to by nobody). `req` is the request under way
with the answers its attempts have got. `ApiAnswers` is one attempt with its
three outcomes: an answer, another attempt, or an error, which `FallbackFetcher`
passes on to the browser for some statuses. `NewPage` and `PageAnswers` are the
two halves of `BrowserFetcher.get`; if closing the page raises (`PageStays`), the
request fails and the page stays ("stray") until its context is closed (`Within`).
What a body means to its caller
(`resp.json()`) is part of `Settle`. `ListWalk` and `RunSession` take a request to
be one step that yields a page or fails; `CommandEnds` and the fact that
each request settles in an answer or an error are what they rely on.

### BuildPool, Pool

`BuildPool` follows `resolve_pair`: the candidates of a (brand, family) pair in
the order of the code (the last ones of a domestic pair are tried in the order
of a Python set, so any of them may win), the first one with a Count, the item
that is written for it. A query is the record of its four cells, a name the
sequence of its words.

In `Pool` the file is a sequence of items, or `Torn` while it is not readable.
`proc[p]` is the command of process `p`: a sync (`StartSync`, then
`SelectRow` and `WriteRow` per item, `SelectAll`, `DisableRest`), a validation
(`StartValidate`, `Validate`) or a construction (`StartBuild`), and for the last two
`Truncate` and `Rewrite`, since `write_text` is not atomic. `Kill` may leave any
prefix of the text; `Edit` is the operator. `alone` records that nobody else has
written the table (or the file) since the command began, `sure` that no probe
raised.

`Backfill` and `Rotation` use a sync that is a single step. `SyncedAgrees` and
`PoolConverges` are what justifies that: whatever a sync does on its way, the
enabled models at its end are those of the file it read.

### Photos, ImageCache, Overrides

A URL is a record of scheme, host and the beginning of its path. In `ImageCache`
`entry` and `order` are the two halves of the OrderedDict; a request looks its
source up (`Hit`, `Miss`), waits for the CDN (`Send`) and puts what it got (`Put`)
whatever others have put meanwhile. `Show` asks for the thumbnail of a row.
`made` is the true age of a picture, `stored` the age the code compares with the
TTL. `Overrides` splits a save at its SELECT and its commit, and the page after
the redirect at its two SELECTs.

## 3. Runs

| Run | Instance | States | Shows |
|---|---|---|---|
| `vitrine` | 4 listings; the rows that two cars parse to in both shapes of list and detail, in every spelling of month and mileage, with and without mileage and photos | 131,629 | nothing hidden without a newer visible duplicate, no visible twins after a pass, each car with complete data shown once |
| `catalog` | 2 processes, 2 listings, 2 keys | 27,979 | the same promises under every interleaving; what passes in flight may commit; undisturbed steps implement `Vitrine`; the flags heal |
| `backfill` | 1 shell, 3 models, cap 0 or 1, all options, 2 resets/syncs/kills | 38,883 | truthful file, at most one unsaved completion, end covers what was asked, implements `Ledger` (nothing recorded is forgotten or walked again), finishes |
| `rotation` | every pool of 3 models, 2 buckets, years of 5 and 6 days, cooldown 1, plans of 1 and 2 days from yesterday, today or tomorrow, 1 sync | 237,318 | bounded wait, plans come true, every model comes up |
| `list_walk` | 1 model, 3 listings, 2 to a page, cooldown 1, depth 2 or 3, Count 2, 3 or missing, any entries malformed, 1 feed change/failure/kill | 972,720 | when a full and when an incremental walk covers its list; every listing is linked in the end |
| `run_session` | 4 models, 2 buckets, cap 0 or 1, cooldown 2, 2 rejected rows/lost connections/kills | 226,770 | deferral is earned, every model is walked, stored cars are folded in the end |
| `fetch` | 3 attempts, 2 models, 2 cars, every answer, every failure of starting and closing browser and pages | 60,759 | the browser is earned, nothing left open, the command ends |
| `pool` | 2 processes, a sheet of a domestic and two import pairs, 2 files to begin with, 1 edit/failing probe/kill | 1,157,736 | what a build, a validation and a sync leave behind; file and table agree in the end |
| `web` | 2 requests, 4 sources, 5 photo lists in every shape of the column, 2 entries, TTL 2, restarts; 2 operators, 2 slugs, 2 URLs | 909,626 | fresh answers, recency order, thumbnails that can be served; saves are shown |

Three more runs each show a claim of a comment or docstring that the code does
not keep:

| Run | Claim | What happens |
|---|---|---|
| `session_repeats` | a model that ran recently is skipped (`cli.py:363-364`) | `last_run_at` of all but the first model is lost with `expunge_all` |
| `session_unfolded` | dedup runs at the end (`cli.py:364-365`) | not after a rejected row |
| `fetch_fallback` | the browser is the fallback when the API blocks (`fetchers/browser.py:1`, 15) | its answer is the HTML of a rendered page, and `resp.json()` raises |

**Bounds.** `MaxEvents` and `MaxSyncs` bound what happens from outside (kills,
failures, resets, syncs, edits, feed changes); everything else is finite by itself,
or saturates where the code no longer tells values apart (ages, waits). Why the
small instances are enough:

- Two listings are enough for a pair of duplicates, two processes for an insert
  race, for an upsert against a pass and for two overlapping passes; with more
  the theorems of section 4 take over.
- Two cars whose mileages (4,027 and 4,530) begin with the same digit are told
  apart only by a parser that drops the separator.
- Three models let a backfill be killed with one recorded, one unsaved and one
  left.
- Years of 5 and 6 days end in the first and the second bucket of a rotation of two, as
  365 and 366 days end within a rotation of 14. Three models in two buckets make
  buckets of different sizes. A plan of two days covers a rotation, one made late in
  the year crosses 1 January, and one that began yesterday is still ahead by a day.
- Three listings on pages of two are the smallest list with a page behind the
  first. Every list of them is an initial one, so that one event is a disturbance
  of a full list. A depth of 2 hides the last page of a list of three, a Count of 2 ends
  its walk early, and a Count of 3 is too high for a list of two.
- Three attempts separate the first, a middle and the last; two models separate
  the end of a model from the end of the command.
- Three pairs are enough for rows that stay and one that disappears, and the sheet
  has every kind of candidate: with and without tokens, a code, a Korean name, an
  own manufacturer cell. The two imports (3 Series and 3 Series GT) have one Korean
  name, which `BMW_SUBMODEL_KR` maps by prefix, and so may get one filter. One disturbance is enough to break each half of
  a rewrite, one item of a sync or one probe; two processes overlap in every
  pair of commands.
- Two entries for three pictures make eviction happen and choose; a TTL of two ticks
  and a flight of one let an older picture arrive after a newer one.

**Conditions stated in the properties.** Each of them is needed; the property
without it is false, and the code's comments rarely mention it.

- `HiddenBehindNewer` and `NoVisibleTwins` exempt rows written since the SELECT
  behind the present flags; the next pass puts them right (`FlagsHeal`).
- `EachCarOnce` is about listings with complete data: the photo fallback does not
  look at the key (section 5).
- The full-walk half of `WalkCoversList` is about walks during which the feed is stable,
  nothing fails and every answer is sound, on pages of at least 20 cars (a constant of
  the model) and a list that fits into `max_pages` and into what encar serves; the
  incremental half about histories in which nothing was ever disturbed, which includes
  unsound answers and lists that do not fit, and about models that do not overlap with another.
  `models.yaml` does hold overlapping models (six groups share one `raw_q`, for
  instance `sonata-dn8` and three others): a walk of one makes the first cars of
  the others recent, and a walk of another within the cooldown stops there. The default
  rotation puts the members of a group on different days.
- `EveryListingLinked` has the same conditions, but only from some time on: the list fits,
  and the walks of its model are undisturbed and get sound answers. A listing that stays
  behind encar's depth, a Count that is too low or a page that malformed entries
  made short is not promised to be linked, and need not be.
- `PlanComesTrue` is about plans with the buckets of the settings, and holds each of
  their days against the UTC date that the plan names.
- `ImplementsLedger` and `AtMostOneUnsaved` are about one command at a time.
- `NothingLeftOpen` excludes commands in which starting or closing the browser raised
  (not those in which closing a page did).
- `SyncedAgrees` and `OnlyEmptyModelsDisabled` are about commands that were alone;
  the latter and `PoolConverges` about files with distinct slugs.
- `BuildSound` allows two pairs to get the same filter if they are of one brand and have
  a name in common: Avante and Avante Hybrid, 3 Series and 3 Series GT.
- `ShownPhotoIsServed` is about rows without photos of foreign hosts.
- `SaveShown` excludes saves that another save of the same slug overlapped.

**Fairness.** In general a step that the program takes on its own is weakly fair:
requests have timeouts, statements end. Beyond that:

- `Catalog`: strong fairness of the steps of a pass. Cron starts a run every day
  and each ends with a pass, which may be killed any number of times but not
  every time. No upsert is fair.
- `Backfill`: the operator repeats the plain command (strong, since other commands
  may intervene), and a model that does not always fail succeeds at last.
- `Rotation` and `Planner`: days pass. No plan and no run is fair.
- `ListWalk`: time passes, and cron comes back to every model (strong: it may find it in
  cooldown). Backfills are not relied upon.
- `RunSession`: the plain daily command is started for every bucket.
- `Fetch`: a command that was started moves on. None is started by itself.
- `Pool`: a command that was started moves on. A sync runs when a container
  starts, so that it recurs is not assumed but stated in `PoolConverges`.
- The web run has safety and action properties only: nothing is fair.

**Deadlock** is checked in every run: an ended command can always be started
again, and days always follow.

## 4. Proofs

All theorems hold for every value of the constants under the named assumptions
of the modules, which TLC evaluates on every run, or under a hypothesis of their
own (`ColumnsIndependent` of `Catalog`, `OneShell` of `Backfill`).

What a recursive definition computes is proved by induction over the positions
of its sequence (`DataLemmas`): `RecursionExists` says that the recursive function
exists, so that the one TLC computes is the one its equation describes, and
`UpTo` is induction over an interval, for a set of numbers. `OnlyPicks` follows: a
comprehension has the elements that satisfy its condition, each once, in their order.

- **Dedup** (first part of `CatalogProofs`). `HiddenHasNewerPrimary`: the key groups are classes of an
  equivalence, the photo groups are classes among the rest, and the largest id
  of a finite class exists (`MaxExists`), so each hidden row has a larger
  duplicate that is hidden by nobody. `PrimariesHaveDistinctKeys` follows from the
  same choice.
- **Vitrine** (`CatalogProofs` too). `HiddenBehindNewer` and `NoVisibleTwins` are
  inductive together with the types: an upsert touches what it changes, and a pass is
  covered by the two theorems about `Dedup`. So the abstract vitrine keeps its
  promises for any ids and rows, and not only where `Catalog` implements it.
- **Catalog** (third part of `CatalogProofs`). The two promises are not inductive: they say nothing
  about a pass that is about to commit. The strengthening `IInv` adds the types
  and `PassSound`, which states the promises of every pass in flight for the winners it has
  computed, except for the rows in its `missed`, together with the fact that a
  row its reset does not cover is one it missed. A SELECT establishes it by the
  theorems about `Dedup`, every write keeps it because the row becomes missed,
  and the commit turns `missed` into `touched`. Needs `IdsAssumption` (ids are
  numbers in a bounded range) and the hypothesis `ColumnsIndependent` (columns are
  independent, and writing to an unchanged row all that differs gives the new row), which
  `MCCatalog` evaluates.
  `CatalogImplementsVitrine` adds `WinnersCurrent`: a pass that has missed nothing
  still has the primaries of the present table, so that its commit is the abstract
  `RunDedup`; an insert and an undisturbed update are the abstract `Upsert`.
- **Listing and Payloads** (last part of `CatalogProofs`). `VitrineEachCarOnce` needs of
  the parsers that the rows of a car agree where they say something and that rows
  of two cars differ. `DetailShowsCar` gives both: for every shape and spelling of
  a payload, `parse_car_detail` makes a row with the brand, model, month, mileage, colour
  and photo of the car, NULL for what the payload leaves out. Its lemmas follow the code:
  `int()` of some digits and `str()` of a number undo one another (`StrOfNumber`); `\d+` takes
  the digits that stand at a position (`DigitRunIs`); a mileage is read from its
  digits with separators anywhere among them (`MileageParses`); each of the spellings of a month is
  read by its own pattern, no pattern before that one matches it, and the Korean
  one, which the code searches for, is found at one place (`MonthParses`). Then two complete rows
  of one car have one key, so `NoVisibleTwins` forbids that both are visible, and rows
  that `run_dedup` takes for duplicates are of one car, so the listing in front of which
  `HiddenBehindNewer` hides another is of that car. Assumes of encar what
  `Payloads` states: two cars differ in their key and in their photo (`CarsAssumption`, which
  is what a *physical car* means to `dedup.py`), years are those that two digits tell apart
  (1950 to 2049), a text of a mileage has its digits (`WrittenAssumption`), payloads
  are of the car they are listed for (`DetailsAssumption`), and only such rows are
  stored (`ListedAssumption`). A payload that spells a month otherwise is outside of it.
- **Backfill** (`BackfillProofs`). `IInv` adds `NothingDropped` (what an uncapped command
  was asked for is walked or still to do) and three facts about where a command is.
  `BackfillTypes`, `BackfillCompletedWasWalked` and `BackfillEndCoversAsked`
  hold for any number of commands that overwrite each other's
  file, which the run with one shell does not cover. `BackfillAtMostOneUnsaved` and
  `BackfillImplementsLedger` assume `OneShell` (one command at a time), under which
  `InStep` relates the memory of the command to the file: equal before a model
  begins, at most the model just walked ahead after it, and what is left to do is
  disjoint from what is recorded. The last part is why no walk of a recorded model is
  begun; a walk whose completion a kill has lost is not recorded, and is made again.
- **Rotation** (`RotationProofs`). `IInv` states the largest possible `wait` of a model
  as a function of the day and of its bucket. Assumes that no year is shorter than a
  rotation, which is also what `EveryModelComesUp` needs. `PlannerImplementsRotation`:
  each step of `Planner` is a step of `Rotation` or leaves it alone, so
  `PlannerWaitIsBounded` is the same bound where plans are made and runs take place.
  `PlanComes` is `PlanComesTrue`. Its first half is `PlanFits`, said of every UTC date
  the plan still has ahead, whether it has begun, begins today or begins later: a new
  day, also 1 January, brings each of them one day closer and leaves it the day of the
  year the plan was made for. For the second half `PlanYear` says of all days of a plan
  made this year, past ones included, that each is the bucket of its day. Consecutive
  days run through all residues (`ResidueOnce`), so each enabled model, whose bucket is
  the residue of its index, comes on exactly one of them; indices are one-to-one
  (`IndexBijective`), so the models of a residue can be moved to those of another, all
  but one of them at most (`MovedIndices`, `BucketSizes`). `PlanCounts` is the counting:
  pairs of a day and a model, measured or not, and as many pairs as models, because no
  model is announced twice. Assumes that each plan ends less than a year after it is
  made.
- **RunSession** (`RunSessionProofs`). `DeferralEarned` is inductive together with the
  types: `last_run_at` is written in the same step as the history of walks, and both
  grow old together. Assumes that `Never` is not a number.
- **Walk** (second part of `WalkProofs`). `WalkCovers` is both halves of
  `WalkCoversList`, for any models, overlaps, page sizes and feeds. `OnCourse` follows a walk
  whose list is stable: what it has collected is a prefix of the list, its page
  holds the last of these cars, and all cars before them are linked; it ends behind the
  list, or at a car it knew, or because the list does not fit (`Fits`: pages as long as
  the code takes them for, `max_pages` of them, and a depth that encar serves), or
  after an unsound answer, which ends `calm`. That is all a full walk needs. An incremental
  walk infers from the car it stops at that those behind are linked, which is a
  claim about the history: `CalmHistory` says that behind a stored car every car of
  the list is linked, except for those a walk under way has yet to reach (`Frontier`).
  A failed car, a kill or a walk of an overlapping model would end that, hence the
  conditions of the second half.
- **Fetch** (first part of `WalkProofs`). `FetchIInv` adds `RequestSound` (a request that is still with
  the client has attempts left and met nothing but errors to be retried) and
  `ResourcesSound` (a command without a browser has met an error at its start, one
  that closed its browser without an error holds the client only, and a stray page lives
  in an open context). Holds for any
  number of attempts, models and cars.
- **Pool** (`PoolProofs`). `IInv` says of an undisturbed sync (`Fits`) that the first `k - 1`
  items are in the table, the later of two with one slug (`Copied`), that the row it
  has loaded is the row there is, and after its second SELECT that the rows to
  disable are exactly the ones left over. `FilesSound` says of a validation whose
  probes all came back that its items are those of the file it read with
  the empty ones off. `SyncedAgrees` and `OnlyEmptyModelsDisabled` follow for any
  file, any table and any number of commands. `Built` says of what is about to be
  written that it was resolved from the sheet, with which probes failing; whatever
  was resolved is sound (`BuiltSound`), because a winner is a candidate with cars
  (`WinnersProperties`) and a candidate names its brand and one of the names of its pair
  (`CandidateOf`), so that pairs which share one are of one brand. `PoolBuildSound` assumes
  `TablesAssumption`: no two brands share a Manufacturer cell, which holds of
  `DOMESTIC_BRAND_KR` (four values), `IMPORT_MANUFACTURER_NAME` (four Korean
  values) and a sheet whose labels are English. `FileListsSheet`: the two comprehensions of
  `_to_models_yaml` together have every pair of the sheet once, because a pair is either
  domestic or not; so what is resolved has an item for each pair, at a position that
  `SheetAssumption` (the sheet is a list) lets one name, and the three parts of the report
  partition these positions (`PoolBuildComplete`).
- **Web** (`WebProofs`). `FreshInv`: the true age of an entry exceeds its stored age by
  the flight of one request at most, so a hit serves nothing older than the TTL and that
  flight (a picture older than the TTL alone is possible).
  `ShownPhotoIsServed` follows for any rows, from `PhotosAssumption` (`photo_urls` is a
  list, and what does not begin with `http://` or `https://` is no URL): whatever
  `first_photo_url` makes of an entry that names no foreign host passes
  `normalize_source_url`.
  `OrderInv` says what the OrderedDict is: its keys are those of the entries, no more
  than the limit, and in the order in which they were used last. `LeastRecentEvicted`
  follows, since what `Put` evicts is the front; the lemmas about `RemoveFirst`
  (`DataLemmas`) say that dropping a key and appending it keep the order of all others.
  `SavedInv`: a save that is alone has loaded what is stored, and after its commit what is
  stored shows as its value.

Only model-checked:

- All liveness properties (`FlagsHeal`, `EveryModelWalked` of the backfill and of
  run-incremental, `EveryModelComesUp`, `EveryListingLinked`, `FoldedInTheEnd`,
  `CommandEnds`, `PoolConverges`): fairness is outside the provers' reach.

Every invariant and every action property of the runs is stated by a theorem.
Two type invariants are proved and need no run of their own: `VitrineTypeOK`, which the
`catalog` run checks as a part of `Catalog.TypeOK`, and `OverridesTypeOK`.

## 5. What is left out, and what the models showed besides

Not modelled:

- `run` (`cli.py:129-277`): it calls `models_for_today`, which `cli.py` does not
  import (line 157), so there is no behaviour to model. Its loop is that of
  run-incremental with full walks.
- Rate limiting (`utils/rate_limit.py`): `TokenBucket` has no caller in the package,
  `RandomDelay` no state.
- URL construction (`encar_url.py`): string building. What pagination selects is
  `ListWalk.Page`, an item it rejects is `Pool.Bad`.
- The pages of the web application that only read; `car_type.py` and
  `brand_display.py`, which are lookups in constant tables; logs and settings.
- The columns of a row that no property tells apart; the informational fields of
  the backfill state; the durations in a plan; the figures of the dedup report.
- In `Catalog`, `link_car_to_model` (it never touches `cars`; it is in `ListWalk`).
- How `build_pool` splits a label into base, tokens and code (input of `BuildPool`).
- The permanent failure of a model in a backfill: every later command then stops
  at the same model, and the ones behind it are not walked (`Failing` in
  `Backfill` is the set of such models; `EveryModelWalked` holds for the empty
  set only).

What the code does and a reader of its comments might not expect. No run
stands for these; the properties are stated so that they allow for them.

- The photo fallback folds two cars whose complete keys differ when their photo
  sets agree (`dedup.py:165` against `tests/unit/test_dedup.py:277`).
- A listing committed between the SELECT and the first UPDATE of a pass is hidden
  by that pass, until the next (`dedup.py:181-184` and 198).
- `--no-resume` has no effect: `walk_backfill` loads the file all the same
  (`cli.py:489-490`, `backfill.py:172`).
- A trial with `--max-pages` records its models as completed, and the full backfill
  that follows skips them.
- After a kill in the middle of a page the first car is recent and the ones
  behind it are not stored; the incremental walk stops there (`pipeline.py:286-288`
  and 336) until the cooldown is over.
- `plan --days N` plans N buckets. Unless N is `scheduler_bucket_count`, it prints
  days that never take place (`plan.py:373-376`); and it applies today's cooldown to
  days to come.
- A probe that fails counts as a measured 0, though `plan.py:60` says that the
  average is used for models that were not counted.
- `validate-pool --disable` turns off items without a `raw_q`, and items whose probe
  raised (`validate_pool.py:21-36`).
- `build_pool` tries the filter without the tokens first, so that Avante and Avante
  Hybrid may share a query; its slug ignores the brand (`build_pool.py:403`); it
  knows 4 domestic brands where `car_type.py` knows 10.
- Which errors go to the browser: `fetchers/api.py:24-25` and 36-37 say that 403 *and
  other 4xx* are raised so that `FallbackFetcher` can switch to it, and 111-113 that
  exhausted retries typically do. `FallbackFetcher` switches for 403, 429 and no status only,
  as its own docstring has it (`fetchers/factory.py:9-11`, 24): a 404 and a server error
  that outlasts its retries are raised to the caller. `FallbackEarned` states this latter reading.
- `plan` without `--day` takes the local date (`plan.py:353`), run-incremental the UTC date
  (`cli.py:388`), though `cli.py:627` says "Empty = today" and `plan.py:1` that it
  estimates what a daily run will do. With `TZ=Asia/Seoul` (`deploy/encar.env.example:36`)
  they differ from 00:00 to 09:00 local time, also at 03:00 when cron starts the run: the
  plan then lists the bucket after the one of that run. `PlanComesTrue` therefore compares by
  the UTC date a plan names; that the first bucket of a plan is the one a run
  is offered there and then is false for `Starts` with 1 in it.
- `scheduler.py:6-7` and 41 compute the bucket from `isoweekday`; the code (line 88) and
  the model take the day of the year.
- A listing behind encar's depth (`pipeline.py:195`), behind a Count that is too low
  (181-184, 208) or behind a page that malformed entries made short (216) is not read by
  any walk. `config.py:38-40` speaks of models of more than 1000 cars.
- A null Manufacturer or Model of a list entry becomes the text `None`
  (`parsers/list_page.py:61-62`; `Listing.StrOrNone`), which the row keeps whatever the detail says
  (`parsers/details.py:141` and 220). `Payloads.Offers` has no such entries.
- A browser that starts halfway is forgotten and not closed (`cli.py:417-426`).
- A month of 00 raises in `date()` and costs the whole car (`parsers/details.py:94`).
- The warning of `encar_url.py:118-123` about a mismatched manufacturer cannot fire for
  the imports it knows; the brand filter of the web page may offer two spellings under
  one label.

## 6. Plan

Done: every component that keeps state, the refinements of `Vitrine`, `Ledger` and `Rotation`,
and a proof of every safety property and action property of the runs.
What could be added, in this order:

1. The step from `SyncedAgrees` to the one-step `Sync` of `Backfill` and `Rotation`, as a
   refinement of an abstract pool.
2. Larger instances of `catalog` (three listings) and `pool` (two events), which
   exceed what a run of a few minutes can explore.
