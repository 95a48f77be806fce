# Solvent Streets (`pvmt`) in TLA+

`pvmt` measures a city's pavement. It ingests roads, parking, sidewalks,
facilities and census blocks from public sources into one SQLite file, computes
areas, metrics and forecasts from them, publishes the results as *snapshots*,
and shows them: an HTTP server, a static export, a game. This directory holds
TLA+ models of the parts whose correctness depends on the order in which things
happen, the TLC configurations that check them on small instances, and proofs
of the properties that matter most for every instance.

## 1. Inventory

Paths are relative to `src/`.

| component | state | operations | interacts with |
|---|---|---|---|
| Result store (`internal/db`: snapshots, results, schema) | tables `runs`, `snapshots`, `snapshot_parts`, eight result tables keyed by run | create a run, save its rows, commit a snapshot, delete one, discard a run, sweep orphans | every command and reader; a change is one `BEGIN IMMEDIATE` transaction, but for `CreateRun` and `SaveComputeResult`, single statements that commit by themselves |
| Drafts and commands (`internal/db/draft.go`, `pkg/cmd/{compute,all,forecast,services,census}`) | in memory: a change to the manifest, the runs created; on disk: half-saved runs | compute a resource and rerun its forecast, the single-metric producers, `forecast`, `all compute` | result store; several processes may run at once |
| gc and snapshot deletion (`pkg/cmd/gc`, `pkg/cmd/snapshots`) | none of their own; lists read before a prompt | sweep orphan runs, remove or prune snapshots | result store, while commands and readers run |
| Readers (`internal/export/entry.go`, `pkg/cmd/export`, `serve`) | a pinned snapshot id | resolve, pin, then query for minutes | result store, while writers and deletions run |
| Source store (`internal/db/store.go`) | cities, boundaries, features | upsert features by source, save a boundary | ingest, compute |
| Ingest (`pkg/cmd/ingest`, `internal/ingest`) | none; uses the boundary as a cache | resolve the boundary, fetch from sources, replace, road-coverage gate | upstream services, HTTP cache, source store |
| HTTP cache (`internal/cache/transport.go`) | two files per entry | `RoundTrip` | upstream clients; every process shares the directory |
| Cache prune (`internal/cache/prune.go`) | a scan of that directory, a report | scan, four passes, evict | HTTP cache, without a lock |
| Server (`internal/server`) | pages and JSON built once and kept | single-flight build, evict on failure | readers |
| Multi-city fan-out (`pkg/cmdutil/factory.go`) | the outcome so far | run a command for each city | every command |
| Migrations (`internal/db/migrations.go`) | `user_version`, `schema_version` | check the generation, apply in order, once | every process that opens the file |
| Upstream clients (`internal/ingest`) | the features or rows of one fetch | split, page, rank, retry | ingest, through the HTTP cache |
| Configuration (`internal/config`) | the merged configuration, its hash | resolve includes, union cities, warn, hash | the hash keys snapshots, the id keys cities |
| Pavement coverage (`pkg/cmd/compute`, `geo`, `resource`) | slices of hexes and features | buffer, union, clip, measure, save | reads features, saves a resource's part |
| Jurisdiction (`internal/filter`) | none | a road's tags to its keeper | compute, the game's board |
| Service coverage (`internal/services`) | a road graph, arrival times | route from all facilities, save | reads features, saves a service's part |
| Forecasts (`internal/forecast`) | simulated years | decay, share, defer, break even | `forecast`, the server, the game |
| Solvency game (`internal/game`, `cmd/wasm`, `templates/game.js`) | the board; the page's copy of it | seed, tick, budget, brush | the exported board |
| Other pure code (`geo`, `population`, `hexmetric`, `resource`) | none | geometry, weighting, tables | compute |
| Presentation (`templates/*.js`, `internal/tui`, `pkg/iostreams`, `status`, `validate`) | user interface | show | readers |

What is hard, and what "correct" means, component by component:

* **Result store.** Runs are shared between snapshots, removed by three
  different transactions (discard, deletion, gc), and named by manifests that
  were written by others. Correct: a manifest never names a run that is gone or
  belongs elsewhere; rows never outlive their run; a snapshot never changes.
* **Commands.** A command works for minutes over many transactions; other
  commands, gc and deletions interleave, any step may fail, be cancelled or be
  killed. Correct: nothing half saved is published, no other command's part is
  lost, a resource is paired with the forecast of that very compute, no run is
  lost track of but in the three ways `NoRunLeaks` names, and every command ends.
* **gc.** Only a grace period separates an orphan from a run in progress.
* **Readers.** A pinned snapshot may be deleted under its reader.
* **Ingest.** Sources fail one by one, and the boundary is saved before it is
  judged. Correct: a source that is down keeps its rows, a source's rows are of
  one fetch, and no boundary without the city's roads is stored unnoticed.
* **HTTP cache.** Each file is replaced atomically, the pair is not. Correct:
  an entry never shows new validators over an old body.
* **Prune.** It may be interrupted, fail on half an entry, race a writer.
  Correct: its report adds up, its caps are met, the oldest go first.
* **Export and check.** An export reads for minutes while others commit and
  delete. Correct: a city's files are of one snapshot, and of the files every
  export writes a site that passes the check lacks at most `play.html`.
* **Migrations.** Processes open a new file together and may be killed. Correct:
  who is let in finds every migration applied once, in order; a database of
  another generation is not touched.
* **Upstream clients.** Servers truncate, clamp, repeat or ignore parameters.
  Correct: a fetch returns everything once, or fails, and it ends.
* **Server.** A failed build must be forgotten without forgetting a newer one,
  a page must not be cached under another's key, and nobody may wait for ever.
* **Fan-out.** Success, emptiness, failure and cancellation must combine into
  one outcome that hides none of them.
* **Configuration.** A city merged from several files must read the rows of the
  file whose grid it is shown on, and no setting may be lost in silence.
* **Pavement.** Every parallel pass returns what it has when cancelled, with no
  error. Correct: what is saved is of the whole town, overlaps count once, and
  the city pays for its own roads only.
* **Services.** Ties, one-way streets, unordered workers. Correct: the saved
  times are the least legal ones to the positions a hex projects to.
* **Forecasts and game.** Correct: deficits add up to the backlog, the
  break-even budget holds, the page shows the engine's board.

`PROJECT.json` lists every component with what is modelled of it (or why it is
not) and every hazard at the line where it bites.

## 2. Modules

| module | models | builds on |
|---|---|---|
| `SnapshotStore` | the result store as a client sees it: any call, in any order, with any arguments | |
| `PublishedSnapshots` | abstract: what the store promises its readers | |
| `DraftCommands` | the commands as processes over the store, with gc, deletions, time, failures and kills | extends `SnapshotStore`, refines `PublishedSnapshots` |
| `HttpCache` | `CachingTransport.RoundTrip`, one action per file operation or exchange | |
| `CachePrune` | `Prune` beside those requests | extends `HttpCache` |
| `Ingest` | ingest runs of one city over its boundary and features, beside gc's sweep of sources | |
| `Upstreams` | one fetch from Overpass, an ArcGIS layer or Nominatim, through the retry transport | |
| `ServeCache` | the server's requests and their shared builds, beside `snapshots rm` | |
| `SiteExport` | an export beside commits, `rm` and `prune`; `check-site` on what it left | |
| `Migrations` | processes opening one database | |
| `ConfigLoad` | loading a tree of included files | |
| `CityFanOut` | one invocation over several cities, to its exit code | |
| `Jurisdiction` | operators: who keeps a road | |
| `PavementCoverage` | compute: from the features to the saved rows and the game's board | extends `Jurisdiction` |
| `ServiceCoverage` | `services compute`, from the road rows to the saved coverage | |
| `Forecasts` | the simulated years and the break-even search | |
| `SolvencyGame` | the engine and the page | extends `Forecasts` |
| `DraftCommandsProofs` | theorems about the store, the commands, whose a run is, and what a published part holds | extends `DraftCommands` |
| `HousekeepingProofs` | theorems about the HTTP cache, its prune and migrations | extends `CachePrune`, `Migrations` |
| `AnswersProofs` | theorems about exports, the site check, pruning snapshots and the server's caches | extends `SiteExport`, `ServeCache` |
| `OutcomeProofs` | theorems about what a fetch returns, an ingest stores and an invocation exits with | extends `Upstreams`, `CityFanOut`, `Ingest` |
| `ConfigProofs` | theorems about loading a configuration | extends `ConfigLoad`, `SumProofs` |
| `SumProofs` | lemmas about sums, counting, whole quotients, and induction | extends no model |
| `ForecastProofs` | theorems about the forecasts and the game | extends `SolvencyGame`, `SumProofs` |
| `CoverageProofs` | theorems about the saved rows and the saved service coverage | extends `PavementCoverage`, `ServiceCoverage`, `SumProofs` |
| `MCSnapshotStore`, `MCDraftCommands`, `MCCachePrune`, `MCIngest`, `MCSite`, `MCMig`, `MCServe`, `MCUp`, `MCConf`, `MCFan`, `MCPavement`, `MCCover`, `MCFore`, `MCGame` | a small instance of one module | |
| `MCDatabase`, `MCWriters`, `MCPipeline`, `MCEndings` | runs of several instances (section 3) | |

### SnapshotStore

`runs`, `rows` and `snapshots` are the tables; a snapshot and its
`snapshot_parts` rows are one record whose `parts` maps each part to a run,
0 meaning none. `runSeq` and `snapshotSeq` are SQLite's AUTOINCREMENT counters:
an id is never used twice. A run's age is one bit, `expired`: past
`OrphanRunGrace` or not. One action is one write transaction, or one statement
that commits by itself: `CreateRun` is the INSERT, `SaveRow` may be
`SaveComputeResult`'s. `CreateRun` reads its timestamp back in a second statement;
that changes no table, and its failure is the caller's (`NewRunUnread` below):

| action | code |
|---|---|
| `CreateRun`, `SaveRow`, `ReplaceRows` | `CreateRun`, the `Save…` methods, `SaveHexMetricSet` |
| `CommitSnapshot` | `CommitSnapshot`/`commitSnapshot`: check the runs, apply the change to the newest snapshot of the same hash, insert unless nothing changed |
| `DeleteSnapshot`, `DiscardRun`, `GCSweep` | the three ways a run goes, each with its guard |
| `Expire` | time |

### DraftCommands

`cmd[p]` is one process: where it is, its job list, and its `Draft` (`parts`,
`created`). The steps of `doCompute` are `Load`, `NewRun`, `Save` (three
transactions), then the forecast: `ResolveArea`, `ReadArea`, `ResolveCohorts`,
`ReadCohorts`, `NewForecastRun`, `SaveForecast`. A view is resolved by one query
and read by the next, as `viewRunIDs` does. `Commit`, `CommitFails`, `Discard`
and `Discarded` are the ways out; `JobFails`, `ForecastFails`, `Cancel` and
`Crash` the failures. `all compute` goes on after a failed job, but skips what is
left after a failed combined pass (`SkipJobs`); a single command gives its draft
up. `NewRunUnread` is the failure behind `CreateRun`'s INSERT: the row is there,
`Draft.NewRun` has not noted its id, and the command goes on as after any error or
cancellation. `RemoveSnapshot`, `CollectGarbage` and `TimePasses` are everyone
else. `abandoned` is an observer: runs that a kill, a failed discard or such a
`NewRun` left behind for gc.

### HttpCache and CachePrune

`disk` maps the files that exist to the version of the content they carry;
`server` is what the server would answer now. A request reads the meta, reads
the body, asks the server, and writes the body and then the meta, each step an
action of its own; a file write is atomic because `fsutil.WriteFile` renames a
temporary file, and a kill may leave that file behind. Ages are not stored:
any time may pass between two steps, so whether a hit is fresh, and how old a
scanned file is, is chosen when the code looks. This allows slightly more than
real clocks do, which is sound for the invariants checked.

`CachePrune` keeps `prune` as one record. `Stat`, `SweepIncomplete`,
`SweepTemps`, `SweepByAge` and `SweepBySize` take one entry at a time and notice
a cancellation between entries, `RemoveFile` takes one file; requests interleave
everywhere.

### Ingest

`ingest[p]` is one run of `runIngest`: `GetBoundary`, `FetchBoundary` and
`SaveBoundary` are `resolveBoundary`, `FetchFromSources` and `Upsert` the fetch
and the replacement, `FindRoads` and `Judge` the road-coverage gate; `Stops` is
any failure or kill. Fetches touch nothing another run can see, so asking all
sources is one step, as is fetching a boundary with its water. `boundary` is the
`city_boundaries` row, `features` the `features` table by resource; all rows a
fetch gave for a source are one element, its `version`. What geometry decides is
chosen: `land` says which of the three shapes the gate may store hold enough of
the roads, under the one law geometry gives them (the whole holds what its parts
hold). `unjudged` is an observer: some run saved a fresh boundary and ended
without a verdict. Sources left out with `--source`, and gc's sweep, only ever
name the city's configured sources; configurations that change between runs are
covered, because every run chooses its sources anew.

### Upstreams

`world` is the service and what it holds, `fetch` what is still to be asked and
what is held, `trip` the transport's round trip. For Overpass a box is the path
of quadrants that leads to it and an element the smallest quadrants it touches:
`AnswerBBox` keeps what a box gave, or splits it when the answer is not usable. For
ArcGIS `AnswerPage` appends a page and `ClassifyArcGISPage` decides what it meant;
a server may clamp the page, ignore the offset, and report
`exceededTransferLimit` or not. `PickBoundary` ranks Nominatim's candidates. A
transient failure backs off and is tried again while retries remain, and not at
all for a POST that may not be repeated.

### ServeCache

`slot` are the two maps from keys to thunks, `thunk` the thunks, `request[r]` a
goroutine with its stack of nested builds. `LoadThunk`, `LoadOrStore`, calling the
thunk (`Once`, or waiting for the one that builds), `Build`, `Return` and
`EvictFailure` are separate actions, because other requests come in between. A
document is the city and snapshot it shows. A read may fail and a build may panic,
each for one of `MaxFaults`, and so may the two reads that check a pinned snapshot
(`CheckFails`); a city without a boundary fails for nothing.

### SiteExport

`snaps` are the snapshots of every city, `site` the directory: which root files
exist, and for each data file the snapshot its numbers come from. `Pin` resolves
one city at a time, `ExportCity` is one data file in the code's order, reading
through the pin or, without one, the newest snapshot of that moment. `ListVictims`
and `DeleteVictim` are `snapshots prune` on the two sides of its prompt; its list
is a set of places and ids, and `NextVictim` takes them in the code's order.
`RunChecks` is the six checks of `check-site`.

### Migrations

`database` is `user_version`, the recorded versions, and the log of statements
executed. The generation, the table count and the stamp are statements of their
own, `EnsureSchemaVersion` and each `ApplyMigration` one immediate transaction
(`_txlock=immediate`), so two openers interleave between all of these.

### ConfigLoad

`stack` is the recursion of the include resolver: `ResolveOneInclude` parses the
next file or takes it from `cache`, `Resolved` unions a finished file into the one
that includes it and records the warnings, `LoadEnds` validates the root. Cycles,
depth, missing and malformed files fail. Three kinds of setting stand for all: a pair taken whole
(the grid), a value whose zero means unset, and one with a presence bit. Edge and
condition may also come from the environment (`tree.env`, `tree.envPCI`). The id and
the hash are what was hashed.

The reference knows no stack and no cache: `Givers` walks the includes from the root,
stops at a file that declares the city, and is bounded by the number of files. It is
not bounded by `MaxIncludeDepth`: that limits how deep a load recurses, and a file that
has been resolved is not recursed into, so a chain may be longer than the limit if its
far end is included first (`Ladder` in `MCConf`).

### CityFanOut

`inv` is the invocation, `job` where it is. A step of a city ends well, empty, or
with an error, and a signal may come at any moment. An error is the set of what
`errors.Is` would find in it, so that `errors.Join` is union and the exit code
depends, as in the code, on which sentinel is looked for first.

### Jurisdiction and PavementCoverage

`ClassifyJurisdiction` is the ladder of `internal/filter` over split references
and over operators as words. `PavementCoverage` follows `doCompute`: features are
buffered and clipped to the grid, every parallel pass may be cut short by
`CancelCompute` and returns without an error what it has, and the check between a pass
and its save decides. Ground is unit cells, a polygon a set of them, a hex a
square block; so a union of overlapping polygons, a clipped hex and an area are
exact. Roads, parking and sidewalks each have their own width and footprint. What
follows a pass or a save is the table `Following`, one for a resource
and one for the combined pass. `BuildPlayHexes` makes the game's board of the same streets.

### ServiceCoverage

`BuildGraph` turns road rows into directed segments, `SnapFacility` and `Seed` find
where the search starts (a hex tries one position per segment, its projection), `Pop`
is one extraction of the heap, ties in any order,
`CoverHex` one worker's hex, and `SaveRoute` the save of the whole. Streets are parallel
to the axes. The reference (`Spot`, `Steps`, `DriveTimes`) knows no vertices, seeds or heap:
it moves along every segment a unit at a time, in rounds.

### Forecasts and SolvencyGame

`SimulateYear` is one year of all cohorts; money is shared by need with the cap
of the code, and each step of the bisection (`Narrow`, `Bisect`) is a whole
simulation. `RunYear` steps through one scenario. Conditions are
whole points, money whole units of need, so that sums are exact and a property
can ask for equality; a spread condition is two bands of half a cohort's area.
`SolvencyGame` adds the engine's calls (seed, tick, set the
budget, brush) and the page, which paints only what a call returned.

### Fault operators

An operator commented `Fault:` is not part of any specification. It is a
plausible mistake in the operator that follows it (a forgotten guard, a lost
order, an uncounted case), kept beside it to show that a property notices:
`PROJECT.json` pairs each property of each passing run with the fault it must
catch.

## 3. Runs

Ids, bounds and model values are in the `.cfg` files and the `MC` modules. `Max…` constants bound
counters that the code leaves unbounded; where one stops an action, the system
simply stops making new runs, snapshots or requests, so deadlock is not checked.

| run | instance | shows |
|---|---|---|
| `database` | store: 2 cities, 2 hashes, 2 parts, 3 runs, 2 snapshots; ingest: 2 processes, 3 runs, 2 resources sharing a source's name, 2 sources, 2 versions; site: 2 cities, 2 exports, a commit, an `rm`, a prune; migrations: 2 processes, 3 opens, 7 databases, 2 sets of files | manifests stay intact and rows keep their runs; sources that are down lose nothing, no fetches are mixed, no bad boundary is hidden; pinned exports show one snapshot, and what a checked site can lack; schemas are complete |
| `writers` | commands: 2 processes, 3 commands of 3 kinds, 5 runs, 3 snapshots; cache: 2 keys, 2 versions, 2 requests, 1 prune, all failures | no lost update, no live draft swept, forecasts match their computes, readers see atomic and immutable snapshots; a body is never older than its meta, the prune's report and caps |
| `pipeline` | 7 instances: trees of up to 6 files, chains to the depth limit and one beyond it, two environments; fan-outs over 3 cities, two of one slug; towns of one road each and of crossing streets, lots and sidewalks; a block with stations; commands that outlive gc's grace period; two-class networks; boards of up to 3 hexes | what is loaded, computed, published, forecast and shown is what the inputs say; a swept run is refused by the commit |
| `endings` | commands: one process, 2 commands with the combined pass, every step may fail, be cancelled or be killed; server: 2 cities, 3 requests, 1 failure or panic; fetches: every small Overpass, ArcGIS and Nominatim service of `MCUp` | nothing half saved is published, runs are lost in three ways only; no wrong or failed document is kept, no newer build is lost; fetches are whole; commands, requests and fetches end |
| `orderly_leak` | a metric command that is cancelled | counterexample, section 5 |
| `fields_not_filled` | two includes that complete each other | counterexample, section 5 |
| `empty_snapshot` | a metric command | counterexample, section 5 |
| `mixed_forecast` | `forecast` beside `compute` | counterexample, section 5 |
| `cache_two_writers` | two requests of one key | counterexample, section 5 |
| `ingest_unjudged` | one process, one source | counterexample, section 5 |
| `export_unpinned` | a city's first two snapshots come during the export | counterexample, section 5 |
| `secondary_lost` | one road of every kind and keeper | counterexample, section 5 |

`MCDatabase`, `MCWriters`, `MCPipeline` and `MCEndings` put several instances
in one run. A behaviour chooses a `part`; only that part's variables change, the
others stay at one of their initial states. The reachable states are the sum of
the parts' and not their product, which is enough because these models share no
variable: each property is about one part and is checked over all of that part's
behaviours. In `MCEndings`, the one with liveness, the fairness of each part
is that of its own specification and asks nothing of the part that stays.

Of the passing runs `database` and `writers` use symmetry, over cities, hashes, parts, keys,
versions or processes that no definition tells apart. (In `pipeline` comparing the
permutations of a whole configuration costs more than the states it saves.) Where one permutation has
to serve two instances, they share the names (`City = Proc` and `Hash = Version`
in `MCDatabase`, `Key = Proc` in `MCWriters`).

Why these bounds are enough to be interesting. Two processes make every pairwise
interleaving, and a third command lets a later one build on what the first two
left. Two or three snapshots are needed for a run to be shared by two snapshots,
and for one of them to go while the other stays. One resource with its forecast
and one metric make the three kinds of part. A save of three rows has a first, a
middle and a last. In the cache one entry fits under the size cap and two do
not, and two versions make "old" and "new". In ingest two runs race
over what a third has left, and two sources are one that answers and one that is
down; facilities come from `overpass` as roads do, so a sweep or a replacement
that forgot the resource would show. Three requests are one that sees an old
failure, one that stores the next build and one that waits; the second
export is a re-export over what the first left. Two openers and a kill leave a half
migrated database to the second. In the include trees a city comes from two files
by two ways, and the deepest chain is one longer than the limit. A block with a
one-way side has a way round. Fractions are counted in quarters (`Scale`), and the
lots of `MCPavement` have sizes it divides.

`endings` uses no symmetry, since it checks liveness. Its failing commands run one
after the other, the second over what the first left: with two at once the graph is
beyond what liveness can be checked on beside the other parts, and the safety half is
proved for any number of processes (`RunsAreLostInThreeWays`,
`PublishedPartsAreComplete`). Commands never wait for one another in the model, as a
database call that finds the file locked fails or succeeds within its budget.

### Fairness

`FairCommandsSpec` assumes `WF(Proceed(p))` for every process: a running command
keeps being scheduled. It covers the process's own steps, failures among them,
because each is the outcome of a call that returns: database calls have a busy
timeout and `CommitSnapshot` a retry budget. Nothing is assumed of the user, of
gc or of time: starting a command, cancelling or killing one, deleting a
snapshot and sweeping are never owed. `CommandsEnd` therefore says that no
combination of failures makes a command wait or retry for ever.

`ServeSpec` assumes `WF(Serve(r))` for every request: a goroutine that can go on
is scheduled, a database read or a build returns. A request that waits for a
thunk cannot go on, so `RequestsAnswered` shows that whoever it waits for ends,
and that no build waits for itself through the nested one. It is one leads-to, from
some request in flight to none: at most three come, so the server must come to rest.
Requests need not come. `UpstreamSpec` assumes that a fetch's next step is taken: each is a round
trip under the transport's timeout. Nothing is assumed of the service, which may
answer the same page for ever.

### Refinement

`PublishedSpec` (a property of `writers`) maps the
tables to `PublishedSnapshots`: each snapshot with, for each part, the rows its
run holds. Every step of every command must publish a new snapshot whole, remove
one, or change nothing a reader can see. In particular saving rows, gc,
discarding runs and crashes must all be invisible. The theorem `CommandsPublish`
proves the same for every instance.

## 4. Proofs

Every theorem is about a whole specification, with any number of processes,
cities, parts, keys, requests and steps; none uses the size of an instance. They
follow one pattern: a strengthening of the property holds initially, every
action keeps it (a lemma per action), and it implies the property.

### What is assumed

The constants satisfy the named `ASSUME`s, which TLC evaluates on every run. Most
of them say that bounds are naturals and lists are sequences. Those that say
something of the program's surroundings are:

* `CommandsAssumption`, `RowAssumption`: resources and forecasts are distinct
  parts, each forecast belongs to one resource, the rows written are rows.
* `FoundAssumption` (`Migrations`): a database found on disk is new, was left by a
  pvmt of this generation, so that its log is ordered, or is of another generation,
  of which nothing is assumed. A later build's migrations come behind the known ones.
* `SiteAssumption`: snapshots that exist before the export have ids of SQLite's.
* `ServeAssumption`: what visitors want are pages and documents the server has.
* `WorldAssumption` (`Upstreams`): a server's elements have ids of their own, lie
  somewhere in the city's box, and a server that pages answers at least one row.
* `FanAssumption` (`CityFanOut`): the names of steps are distinct where the code
  has distinct commands.
* `NetworkAssumption` (`Forecasts`), `GameAssumption` (`SolvencyGame`): what the
  configuration's and the board's validation lets through.
* `CoverageAssumption` (`PavementCoverage`): a boundary that is stored holds
  something; features and their cells are finitely many; `Scale`, which stands for
  fractions, is a multiple of the size of every lot, so that shares are exact.
* `StreetAssumption` (`ServiceCoverage`): roads are rows of lines of points, and the
  speeds of the table and the default are positive. Nothing is asked of the streets
  themselves: they may overlap, be one-way, loop, or not meet.
* `TreesAssumption` (`ConfigLoad`): finitely many files, whose fields have the types of
  the TOML structures. Edges, thresholds and conditions are not negative: `validate`
  refuses a file where one is, as it does any other malformed file. Nothing is asked of
  how files include one another.

Four theorems have a premise of their own, and each is needed:

* `CacheStaysPaired`: no two requests of one key overlap (`OneRequestPerKey`). A
  client that makes one request after the other satisfies it, which is
  `SingleClientStaysPaired`; the run `cache_two_writers` is the counterexample
  without it.
* `ForecastsAreOfTheirComputes`: no standalone `forecast` command
  (`mixed_forecast` is the counterexample).
* `LiveDraftsAreSafe` states what `LiveDraftsKeepTheirRuns` states: commands end
  within gc's grace period (`~SlowCommands`).
* `BreakEvenAlwaysHoldsSteady`: a worse condition never costs less (`CostsRise`).
  The code states the caveat at `src/internal/forecast/solvency.go:78-85`; the
  configurations accept tiers without it. `MCCostsRise` has TLC evaluate it for the
  instance.

### The store and the commands

`DraftCommandsProofs`, the store: `StoreTypes`, `ManifestsStayIntact`, `RowsKeepTheirRuns`.
The inductive invariant `StoreInv` is their conjunction. `ManifestsIntact` is
inductive given types: `DeletingRuns` shows that a deletion of runs none of which
is referenced keeps it, and each of the three deletions is shown to delete only
such runs; `CommitPublishes` shows that a commit's new manifest is the base's
runs, intact by induction, and the draft's, checked by `checkCommitRuns`.

The commands: `CommandsTypes` and `RunsAreLostInThreeWays` from `CommandsInv`.
Beyond the types it needs `CreatedInCity`: the runs a draft created belong to the
draft's city. Without it a discard, which deletes only runs of its own city, could
silently leave the run behind, a fourth way, which `NoRunLeaks` denies.
`CommandsUseTheStore` is `CommandsSpec => StoreSpec`: every action makes one call
of the store with well-typed arguments, or none. It carries the store's guarantee
over (`ManifestsStayIntactUnderCommands`).

Whose a run is: `OwnershipInv` adds that no run has two owners and that
what a draft owns is in no manifest (`RunsHaveOneOwner`). `StepKinds` sorts the
steps by what they do to runs (quiet, creating, saving, publishing, dropping, or
someone else's), and the proofs go by kind. From it follow

* `LiveDraftsAreSafe`: a working draft's runs exist and are younger than it
  (`LiveRunsAreYoung`), so gc cannot see them, and nobody else owns them.
* `CommitsLoseNothing`: a commit's base is the newest snapshot of that moment,
  whose other parts it carries over.
* `CommandsPublish`: `CommandsSpec => PublishedSpec`. Rows are only written to
  runs the writer owns, which are not published, so a reader sees no save;
  deletions spare what is referenced, so a reader sees no discard and no sweep.

What a published part holds: `PublishedPartsAreComplete`, from `PartsInv`: every part a
draft has put is full as long as its run exists, because it is put after the last
save and nothing but the deletion of the run takes rows away; and a commit
publishes only runs that exist. `ForecastsAreOfTheirComputes`, from `PairingInv`:
a recompute reads through its own draft, which shadows the published snapshot,
and a draft touches a resource and its forecast together or not at all.

### Ingest, files and databases

`OutcomeProofs`: `IngestInv` says that what a run is about to store is one fetch of
each source that answered, and that a boundary is fresh only once saved. It gives
`FetchesAreNotMixed` and `InversionsAreNoticed`: a stored boundary without the
roads has a run that will still judge it, or `unjudged` holds. `DownSourcesAreSpared`
is an action property: a replacement names only sources that answered.

`HousekeepingProofs`:

* `CacheStaysPaired`, from `CacheInv`: nothing is ahead of the server, a request
  about to write a body has one no older than its key's meta, and one about to
  write a meta, one no newer than its key's body, whatever a prune takes.
* `ReportsAreHonest`, from `AccountInv`: at every moment each file the scan saw is
  taken, in the entry at hand, waiting in a list or counted as remaining, and no
  two entries share a file, so the bytes of the report add up.
* `PrunesMeetTheirCaps`, from `CapsInv`: what is gone is older than whatever waits,
  and the passes stop no earlier and no later than at the cap.
* `OpenedSchemasAreComplete` and `ForeignDatabasesAreSpared`: the log of executed
  files is ordered and each version is recorded in the transaction that executed
  its file (`Orderly`), so whoever sees a version recorded sees its effect.

### What is shown and what is returned

`AnswersProofs`:

* `PinnedExportsShowOneSnapshot` and `CheckedSitesLackOnlyPlay`, from `SiteInv`: how
  far a run of export is (as many cities pinned, then written, as it has come to),
  each data file shows the pin or nothing, and the page is written
  last but for `play.html`.
* `PrunesSpareTheNewest`, from `PruningInv`: above each listed victim there are, with
  those `rm` took since, at least `--keep` snapshots of its city that are not
  victims. Deleting in the order of the list keeps that true of the rest.
* `CachesHoldTheirKeys`, `FailuresAreOnTheirWayOut`, `NewerBuildsAreSpared`, from
  `ServeInv`: each request's calls are nested under keys whose snapshot passed the
  checks, and whoever got a failed thunk still has the eviction ahead.

`OutcomeProofs`, the rest:

* `FetchesAreWhole`, from `UpstreamInv`. It is an account of work that is not over,
  one per service: for Overpass, whatever is not yet held touches a box still to be
  asked for; for ArcGIS, a server that pages has given exactly the rows below the
  offset, one that ignores the offset the first page's; for Nominatim, what is
  held is the candidate the ranking picks.
* `ExitCodesTellTheTruth`, from `FanInv`: for the cities that are done, and step by
  step for the one at hand, every failure so far has been told or is among the
  errors that will be, and the counters of results and of empty cities are those
  of the events.

CASE in TLA+ has no order, unlike a `switch`: the arms of `ServeCache` and
`Upstreams` are written to exclude each other.

### Sums, and induction over data

The library states induction with the predicate as a parameter, which the provers
cannot instantiate. `SumProofs` takes a *set* instead: `FromZeroOn` (a set with 0
and the successor of each of its numbers has them all) follows from the order of
the naturals being well founded, and `FromEmptyOn` is its form for the parts of a
finite set. They give the fold behind `SumFunctionOnSet` its equations
(`SumGrows`), and from these come sums that are renamed, split, swapped or compared,
counting, and quotients between two products.

### Configuration

`ConfigProofs`, both theorems from `ConfigInvariant`. The difficulty is that the code puts
a configuration together in the order of its recursion, with a cache, while the
properties speak of what the files say.

* What is represented. `Represents` ties a city to the list of files that give it: the
  grid and the identity are those of the first that states a grid (or of the first),
  condition and growth of the first that states them, and every other statement is the
  same or told by a warning. `ResolvedForecast` puts the environment's condition before
  it. A union represents the two lists, one after the other
  (`UnionRepresents`); so merging one include appends its givers to what the including
  file has heard (`MergeIncludedFine`, an induction over the included cities).
* How far the reference must walk. A file is cached after all files it includes
  (`Settles`), so behind a cached file no chain is longer than there are cached files,
  and a walk as deep as there are files finds what any deeper one would. This
  needs no assumption against cycles: a file in a cycle is never cached.
* The stack. Each file on it has heard exactly of the includes before its `next`
  (`FrameFine`), no file is on it twice or in the cache, and each waits for the one above
  it (`StackFine`). More warnings disturb nothing (`StillRepresents`).
* The view. A file without includes applies its own top level only when someone asks
  (`View`), so what an includer gets and what the root's own city resolves are
  represented in the same way.

The proof corrected the reference, which used to stop at `MaxIncludeDepth`. `Settled`
could not be proved of it, and with it the tree `Ladder` violates the property.

### Pavement

`CoverageProofs`: `SavedRowsAlwaysWhole`, in two halves.

* The arithmetic. The clipped hexes part the city's land (`GridParts`): each cell is
  in the block of its quotients and in no other. So an area measured hex by hex is
  that of the union (`AreasAddUp`), a crossing counted once; the classes, scaled to
  the total, add up to it (`CohortsAddUp`); and the shares of a lot, exact by
  `Scale`, to what it holds (`SpacesAddUp`).
* The control, `CoverInv`: the pass holds every feature, hex and statistic, or the
  command has been cancelled (`MemoryIsWhole`, `StatsAreWhole`). A short pass comes
  only from a cancelled command, and every save after it refuses, so the rows there
  are were made of everything (`RowsAreWhole`). `StoredFirst` keeps the steps that
  measure behind the load of a boundary.

### Service coverage

`CoverageProofs`: `SavedCoverageAlwaysTrue` compares two ways of telling the time to a
position. It is about the positions the code looks at, the projection of a hex on
each segment in range, and not about every drivable position in range.

* The reference. `Driven`, the arrivals that can be made from a spot, is the least set
  with the start that is closed under a unit step. `DriveTimes` is a number of rounds,
  as many as there are steps, and `DriveTimesAreLeast` shows that these are enough: the
  best arrivals settle one spot a round at least, and there are no more spots than
  steps, but for the start (`BestAreFew`, `BestSpreads`).
* Nothing false is found (`Sound`): what is found at a vertex can be driven from the
  facility it names, and so can every offer to a position (`OffersAreDriven`), through
  either end of its segment or along it.
* Nothing is missed. `SearchInv` says that every vertex found either waits in the queue
  at its present cost or has passed it on to its neighbours, and that every seed is
  known or beaten. With the queue empty all have (`Answered`), and what a position is
  offered is then closed under a unit step (`StepIsReached`; `OneSpotReached` carries it
  from one segment to the next where they meet), so by the leastness of `Driven` every
  drive is matched (`DrivenIsReached`). That items leave the heap cheapest first is not
  needed: a better arrival enters the queue again. The order only saves work.
* The run, `RouteInv`: each hex covered so far is true of the finished search
  (`HexesTrue`), whichever worker took it and however ties fell.

`RouteInv` quantifies over sets TLC cannot list, so only its consequence is model-checked.

### Forecasts and the game

`ForecastProofs`:

* `DeficitsAlwaysAddUp`. Money that covers the need of a year covers that of each
  cohort; money that does not is shared without a surplus anywhere. In both cases
  no cohort's lack is lost to the floor at zero (`LackOf`), and the cohorts' lacks
  are the year's.
* `BreakEvenAlwaysHoldsSteady`. Two runs are compared year by year: a funded network
  is never in a worse condition than one nothing is spent on (`FundingNeverHurts`),
  and a better condition costs no more (`PriceFalls`, along the interpolation between
  tiers). So the peak of the unfunded need is enough in every year (`PeakSuffices`),
  the bisection starts between a budget that is too small and one that is not, and
  each step keeps it so.
* `PageAlwaysShowsTheBoard`, from `GameInv`: a call hands back the hexes that differ
  from what the engine remembers to have handed back, and that memory is what the
  page has.

### Only model-checked

* Liveness: `CommandsEnd`, `RequestsAnswered`, `FetchEnds`. The prover does not
  reason about fairness over `ENABLED`.
* `CityIsChargedForItsOwn`: what the words of a name say (`level`) is given only by
  the examples of the instance. An assumption that tied levels to patterns for every
  name would restate the ladder's own guards, and the theorem would say nothing.

## 5. Findings

* **An empty snapshot** (`empty_snapshot`). `Store.CommitSnapshot` documents that
  "no snapshot is ever empty"; dropping the last part of the newest snapshot
  commits an empty manifest.
* **A forecast of two computes** (`mixed_forecast`). A view "never mixes runs
  from two snapshots" within a query, but the standalone forecast makes two
  queries and resolves the newest snapshot for each; a compute that commits in
  between gives it one compute's area and another's cohorts.
* **A new meta over an old body** (`cache_two_writers`). Writing the body first
  rules this out for kills and failed writes, as `writers` shows, but not for
  two refreshes of one entry that overlap.
* **A boundary nobody judged** (`ingest_unjudged`). "Silent inversions are caught
  downstream by the road-coverage gate", but the boundary is saved first, and the
  gate runs only in the run that fetched it. If that run finds no features, has no
  roads to judge by, fails or is killed, or no shape holds the roads, the boundary
  stays, and the next run takes it from the database, skips the gate and succeeds.
  `database` shows that this is the only way: otherwise a run that will judge the
  boundary is always under way.
* **An unpinned export** (`export_unpinned`). "Pin every city to ONE snapshot for
  the whole export", but a city that has no snapshot when the export pins passes
  the later check if a compute commits one in between; it is then read unpinned,
  and a second commit splits its files over two snapshots. `database` shows
  that no city pinned to a snapshot can.
* **A secondary road lost** (`secondary_lost`). `isCityOperator` "recognises a
  transportation department whose qualifier is not a state name", but only in
  the order "Department of Transportation"; a secondary road of the "Boston
  Transportation Department" is filed under County and its upkeep under nobody's.
* **A run left by an orderly exit** (`orderly_leak`). "A cancelled or failed command
  discards its runs", but the INSERT of `CreateRun` commits before its timestamp is
  read back; when that read fails or is cancelled, `Draft.NewRun` never notes the id,
  and the discard does not know of the run. gc takes it a day later. `endings` shows,
  and `RunsAreLostInThreeWays` proves, that only this, a failed delete and a kill
  leave a run behind.
* **Fields a later include does not fill** (`fields_not_filled`), two disagreements
  with `docs/configuration.md` and the comments of `include.go`. "Later includes fill
  only the fields it left unset", but `unionGrid` takes edge and threshold as a pair,
  for the reason its own comment gives: an include that states only the threshold
  keeps a later one's edge out, with a warning where the document promises silence.
  And "zero is the unset sentinel for every field, including GrowthRate", but
  `unionGrowthRate` goes by whether the rate was stated. `NothingStatedIsLostSilently`
  says what the code does instead.

Limits met while modelling, kept out of the properties:

* A standalone `forecast` that races a compute may commit a forecast of the older
  one (`docs/architecture.md` says so). `writers` therefore runs compute,
  the metrics and `all compute`, where `ForecastsMatchComputes` is promised.
* A prune cancelled during its scan reports zero bytes remaining: it knows none.
* A pinned snapshot deleted in mid-export reads as empty. What is left out may be
  optional, and the site can then pass `check-site`; nor does the check ask for
  `play.html`, so an export cut short between `index.html` and it passes
  (`CheckedSiteLacksOnlyPlay` says so). An export killed before it wrote its marker leaves a directory that
  `--clean` refuses.
* A transient read error while the list of cities is built leaves that city out
  of a list that is kept for the life of the server.
* Two processes that open a new file at once may see each other's first table
  and report the file as incompatible; opening again succeeds. Migration files
  numbered below the highest one applied are skipped in silence. A comment of
  `applyMigration` speaks of deferred transactions; every one is immediate.
* Break-even bisection needs a backlog that falls as the budget grows, which
  holds for tiers whose price rises as condition falls and for worst-first
  shares; the configurations accept others.
* `OutOfFunds` compares the treasury with the smallest open hex, and a smaller
  closed one may still be affordable.
* A hex tries one position per segment, its projection. On a one-way street it may be
  priced round the block, or have no value when a drivable position further along the
  segment is in range; the comment at `coverage.go:27-33` reads as if it had one.
  `SavedCoverageIsTrue` states the weaker meaning.
* An operator whose name merely contains "dot" ("Dothan") is read as an agency.

## 6. Plan

Done: every component with an order of steps to get wrong (sections 2 and 3), and
a theorem for every safety and action property of the passing runs but
`CityIsChargedForItsOwn`, for the reason section 4 gives.

Left: the resource tables and the geometry under the pavement pass, whose arithmetic
is in floating point and whose steps have no order to get wrong.

## 7. Not modelled

* Floating point: exact geometry, the exponential deterioration curves, the
  triangular spread of conditions (a spread of two bands stands for it), years
  cut into ticks. The models are in integers, and say nothing of rounding.
* Failures of the polygon library and the cleaning of invalid polygons around
  it; stitching rings from ways; subtracting water. A union never fails here.
* The census layers, population weighting, hex metrics and resource tables:
  arithmetic without state.
* JSON, GeoJSON, TOML and template encoding, wording and layout: no property is
  about them. Of a document the models keep what it was built from.
* The browser application and the terminal UI (no shared state), read-only
  reports, dry runs, flag parsing, wiring, build and documentation tools.

`PROJECT.json` gives the reason, or what is left out, for each component.
