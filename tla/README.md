# The PCDS mirror in TLA+

`pcds` mirrors the Pacific Climate Data Service, an OPeNDAP service of weather
observations, into Parquet files on object storage (or a local directory). It
has no server and no database: every job is a short-lived process, usually on a
GitHub Actions runner, and whatever one job has to tell the next one is a file.
Object storage makes the write of one object atomic and nothing else. What is
hard about the program is therefore what happens *between* two objects: a
runner dies, another job has loaded an older copy, a reader comes by.

This directory models those parts in TLA+, checks the models with TLC on small
instances and proves the main results with TLAPS for every value of the
constants.

## 1. Inventory

Paths are relative to the repository; `pcds` sources are in `src/pcds/`.

| component | state | operations | talks to | hard about it | modelled in |
|---|---|---|---|---|---|
| watermark store (`state.py`) | `_state/watermarks*.parquet`: per station the latest stored time and the failures in a row | load, merge, record_success, record_failure, save, quarantined | append, backfill | shards save whole maps over one another, a load is not atomic | `Watermarks` |
| append (`cli.py`) | `_staging/delta/run_id=*/all.parquet` | select stations, poll each from its watermark minus a window, stage, save | service, watermarks, stations table | revisions and late rows, order of the two writes, death of the runner, its own and that of a compaction | `Pipeline` |
| compaction (`compact.py`, `cli.py`) | `observations/period=*/*.parquet`, `_staging/compact` | rewrite a period, swap its files, clear the deltas, refresh the manifest | deltas, partitions, manifest, readers | the swap is not atomic, clearing is not atomic, targeted runs | `Compaction`, `Archive`, `Pipeline` |
| manifest (`catalog.py`) | `_manifest/files.parquet`, `summary.json` | build, write, load | compaction, layout, portolan, readers | stale while partitions change, two objects | `Compaction`, `Publication` |
| rolling writer (`pack.py`) | the part files of one partition | write, roll, merge the tail, close | compaction, backfill | size band, the merge replaces two objects by one | `RollingWriter` |
| backfill (`cli.py`, `walk.sh`) | `s<shard>-*.parquet` in the partitions | fetch a year range for a shard, flush in station order, save watermarks | service, watermarks | results out of order, re-runs overwrite files one by one while they fetch, partial failures, compactions that die | `Backfill`, `Watermarks` (its shards) |
| fetching (`ingest.py`, `opendap.py`) | limiter, thread pool | chunk a range, request, retry, parse, melt | service | chunk boundaries, rate limit, retries | `Fetch`, `ChunkedFetch`, incremental window in `Pipeline` |
| metadata refresh (`metadata.py`) | station, history, variable and network tables | fetch, merge, write | service, append, backfill | five GETs and five objects, one by one | `Publication`, stations table in `Pipeline` |
| layout planning (`partitioning.py`, `plan.py`) | `layout.json` | plan periods, find the period of a year | backfill, compaction | size floor against existing cuts | `Layout`, `Repartition` |
| repartition (`scripts/repartition.py`) | partitions | move the files of old periods into new ones, fold | layout, compaction | interrupted re-runs, nesting test | `Repartition` |
| storage (`storage.py`) | objects | list, open, move, delete | all | granularity of atomicity | as the step size of every model |
| workflows (`.github/workflows`) | the `pcds-write` concurrency group | schedules, job graphs | all jobs | which jobs exclude each other, what a dropped job leaves | `Publication`; as one running job, and as fairness, elsewhere |
| verify, failures (`cli.py`) | none | read and report | manifest, partitions | | not modelled: reads only |
| STAC catalog (`portolan.py`) | `catalog.json`, `<collection>/collection.json` | read tables and summary, hash objects, write documents | tables, manifest, readers | what is read and what is hashed may differ | `Publication` |
| GeoParquet, thumbnails (`geoparquet.py`, `schema.py`, `thumbnail.py`) | none | encode a table | metadata refresh | | not modelled: data without control |
| bucket server (`scripts/serve.py`) | a directory | get ranges, list pages | viewer | pagination while objects change | `Listing` |
| viewer (`viewer/index.html`) | page state | queries, map and chart | bucket | answers that arrive late | not modelled |

What makes each of them correct:

- *Watermarks.* No job works from a watermark older than one saved before its
  load began; no save moves a station's merged watermark back.
- *Append.* A watermark is never ahead of what is stored. Nothing that lies
  behind the re-read window is missing or outdated. Both but for the rows a
  compaction that died inside a swap has taken: append does not ask again for
  what lies behind its watermarks.
- *Layout.* A plan is a tiling of the years, clears the floor and splits no
  written partition; a plan from a current manifest without strays (§2,
  `Repartition`) stays applicable.
- *Repartition.* Moving files costs no rows, an interrupt no more than the fold
  it hits; in the end every row is stored once, where `layout.json` says.
- *Requests.* One process sends the service no more than the promised rate and a
  burst of the threads it has; a failure shows in the result; every station has
  one. Processes that run at once multiply the rate: the shards of
  `backfill.yml` and `walk.sh` (its lines 19-20 say so) have a limiter each.
- *What is published beside the data.* Tables agree with each other, documents
  with the objects they hash, and both with the archive in the end.
- *Fetching.* What lies in the requested range comes back, or an error for its
  window does; nothing else comes back.
- *Backfill.* Files are sorted although results land in any order; a watermark
  moves only over complete data; a repeated run loses rows of stations that fail
  in it and of no other, and one that dies loses besides what it had deleted and
  not written yet.
- *Rolling writer.* Every file lies in the size band, in order, and no row group
  is in no object during the merge of a tail.
- *Compaction.* It changes how the archive is stored, never what it answers;
  a delta is dropped only after its rows can be read; a dying run loses no more
  than the documented window allows; no row is stored twice.
- *Manifest.* At rest it names exactly what is there.
- *The whole.* Every observation of a station that is polled is published in
  its latest version in the end, unless a torn swap took it.

## 2. Modules

**`Watermarks`** (`state.py`). `files[f]` is the object of writer `f`; per writer
there is its phase, the objects its load has listed and not read yet, its map
(`Watermarks.rows`) and the stations it still has a result to record for.
`List`/`Read` are the two halves of `load`, `Merge` is `_merge`, `Succeeded` and
`Failed` are the record operations, `Save` is `save` with its temporary object
and move as one step (the temporary name does not end in `.parquet`, so no load
reads it), `Crash` drops a writer's memory. A row keeps the watermark and the
failure counter; the `last_*` fields, `rows_total` and names are left out, no
decision reads them.

**`Compaction`** (`compact.py`, `compact` and `catalog` of `cli.py`). `delta[r]`
is the object append run `r` staged, `base[p][n]` the file `n` of partition `p`.
The steps of a run are those of the code: `StartAuto`/`StartTargeted` (which
periods, and whether deltas may be cleared), `Rewrite` (`compact_period` up to
`writer.close()`) or `SkipPeriod` (its early returns), `DeleteFile`,
`DeleteDone`, `MoveFile`, `MoveDone` (the swap), `Folded`, `ClearDelta`,
`ClearDone`, `Refresh` (the manifest) and `Crash` between any two of them.
`Kept` is `dedupe_sql` for one key. An append run stamps all its rows with one
`ingested_at`, and runs are serial, so its number stands for the stamp and for
the version of what it carries. A partition is cut into at most two files
(`PartNames`), at any row.

**`Archive`** is what the files promise: `content` only changes by an ingest,
`published` follows it, may hide rows during a rewrite and never shows an older
version next. `Compaction` implements it under the mapping at its end
(`ImplementsArchive`).

**`Pipeline`** (`append`, `compact`, `metadata` of `cli.py` and the service).
Files are maps from station and time to version here. The service reports and
corrects observations at any time (`Report`), `StartAppend` selects the
stations, `PollRows`/`PollNothing`/`PollError` are the outcomes of one station's
result, in any order, `WriteDelta` and `SaveMarks` the two writes. A compaction
takes the periods of the deltas in order (`StartFold`): `Rewrite` is
`compact_period` up to `writer.close()`, `DeleteFile`, `DeleteDone`, `MoveFile`
and `MoveDone` are the swap, `Folded`, `ClearDelta` and `ClearDone` what follows.
`Crash` ends a job between any two of these steps. One file may hold any of a
partition's rows, so `DeleteFile` and `MoveFile` take any set of them. `Stored`
is what the mirror has: the newest delta's version, else the partition's, else
that in the new files of a running swap. `lost` is history: the rows that only
those files held when the run died, until a later poll brings them again. The
observations of one station and time are one version: variables are not told
apart, because one request carries all of them.

**`ChunkedFetch`** (`clip_window`, `chunk_ranges` and `fetch_station` of
`ingest.py`, `time_constraints` of `opendap.py`). One station's request: `asked`
and `span` are clipped, `lo` walks from window to window, each of which answers
(`FetchWindow`) or fails (`FailWindow`, after its retries). Time is in seconds,
a calendar chunk is a fixed number of them; what matters is where bounds meet.

**`RollingWriter`** (`pack.py`). Row groups are numbered as they are written and
a file is an interval of them with a size. `WriteGroup`, `WriteAndRoll`, `Close`
and the four object operations of `_merge_tail` are actions; the process may die
between any two (`Die`). A stream's object appears when it is closed. Parquet
footers are left out, so the size of a merged file is the sum of its parts.

**`Backfill`** (`backfill` of `cli.py`, `RollingWriter` of `pack.py`,
`scripts/walk.sh`, `backfill.yml`). One shard: `Land` is the body of the loop
over the pool's results. `Leading` are the stations up to the first whose result
is still out, so `Drained` is what the inner loop takes out of the buffer, and
`Flushed` the tables it writes for them, in their order. `files[p][i]` is the
shard's file `i` in period `p`, a sequence of tables, and `stream[p]` what went
into the open one, whose number is `index[p]`. `Roll` closes a full file, over
the one an earlier run left under its name, and opens the next, while other
results are out; sizes are left out, so it may do so after any table.
`CloseWriter` closes one period's writer, or `MergeTail`, `DropMerged` and
`MoveMerged` merge its last file with the one before it; `Save` writes the
watermarks. `LocalRoot` tells a directory, where a file is empty from the moment
it is opened again, from an object store, where the old object stays until the
new one is complete.

Around it `StartWalk`, `Skip`, `WalkPeriod` and `WalkFails` are the script,
`Dispatch` the workflow with a range of the operator's and `AppendRun` an append
with its compaction. `WalkCompact` begins the compaction of a period, and
`DeleteFile`, `DeletePart`, `DeleteDone`, `MovePart` and `MoveDone` are its swap;
`part[p]` is the compacted partition and `staged` the rows under
`_staging/compact`. `Crash` ends a run or a compaction between any two steps. The
other shards are seen only as a failure that ends the walk. The loop over
`pending` that follows the main loop (`cli.py:334`) has nothing to do in any
state: the pool yields every target.

**`Layout`** (`partitioning.py`). `plan_periods` as a loop of one step per year:
`ScanYear` or `SkipYear`, then `CloseTail`. `bytes` and `cuts` are its
arguments, `start`, `acc` and `periods` its locals; `upto`, a prefix sum, is
history and lets a property speak of the size of a period. The module has a
specification of its own, for any arguments, which the theorems are about.

**`Repartition`** (`layout` of `cli.py`, `year_bytes_for_plan` of `plan.py`,
`scripts/repartition.py`) extends it. An object is a record of the partition it
is in, the labels it was moved through (they are in its name), its base name and
its rows. `StartLayout` computes sizes and cuts from the files and the manifest,
`Planning` is the loop of `Layout`, `WriteLayout` the new `layout.json`. `Start`
plans the moves (`Holders` judges by the first and last year of the rows, as the
code does) and refuses when one has no single target; `listed` is its listing of the
objects, made once before the first move; `CopyFile` and `Unlink` are the halves
of a move on object storage, `Fold`, `DeleteFile` and `MoveIn` are
`compact_period`, `Crash` comes between any two, and ends a run that does not
find an object it has listed (`Missing`). `sound`, `tidy`, `done` and `ever` are
history. A *stray* is a partition under a label of the plan with rows of other
years, which an interrupted move under a plan without all the years can leave;
`sound` and `tidy` exclude it. `Backfill`, `Ingest` and
`Catalog` are what else changes files between the runs. The bytes of a year
follow from its rows; the estimate from station metadata is a constant.

**`Fetch`** (`fetch_many`, `fetch_station`, `_get_with_retry`, `RateLimiter` of
`ingest.py`). Each thread of the pool takes a station, asks the limiter for a
slot under its lock (`Acquire`), sleeps outside of it, sends (`Send`), and
retries, gives up or finishes its window. Timers are what is left of a sleep and
`next` is relative to now, so time does not grow; a sleeper wakes at any time
after its timer has run out. `burst`, a bucket that drains with the clock, is
history. `MaxBackoff` stands for the longest random sleep.

**`Publication`** (`metadata.py`, `catalog.py`, `build` of `portolan.py`,
`_setup.yml`, `compact.yml`, `backfill.yml`, `metadata.yml`). Contents are
versions. A job is a list of steps in the order of the code, one GET, one read
or one object written each; a workflow is a list of jobs; `line` is the
concurrency group with the job that runs and the one that waits. A job that asks
for the group while another waits takes its place, and the workflow of that one
ends. `Fail` ends a job between any two steps. `ShardWrites` is a shard of a
backfill, which runs outside the group. A thumbnail is written and hashed with
its table. A collection that is not there yet is passed over (`GoPast`). The texts of README and AGENTS files, `layout.json`'s periods in the
documents and the append workflow, whose job competes for the group as that of
`metadata` does, are left out.

**`Listing`** (`_list` of `scripts/serve.py`). Keys are numbered as strings
sort, `walk` is the order the server walks them in, `of` the common prefix a key
is rolled up into. `GetPage` is a whole request, `Add` and `Delete` are jobs that
change the tree between two of them. `Listing` and `ChunkedFetch` prefix the
names of their specifications, so that a module of theorems can extend each of
them beside a larger module.

**`WatermarksProofs`**, **`CompactionProofs`**, **`PipelineProofs`**,
**`BackfillProofs`**, **`RollingWriterProofs`**, **`RepartitionProofs`** (with
`Layout`), **`FetchProofs`** (with `ChunkedFetch`) and **`PublicationProofs`**
(with `Listing`) hold the theorems. **`MCWatermarks`**, **`MCCompaction`**,
**`MCPipeline`**, **`MCBackfill`**, **`MCRepartition`**, **`MCFetch`** and
**`MCListing`** name the constants of the runs; `ChunkedFetch`, `RollingWriter`
and `Publication` are checked with numbers alone.

Each component module contains, before the definition it varies, the mutants its
properties are tried against: a definition with a plausible bug, which no
specification uses.

## 3. Runs

| run | cfg | shows |
|---|---|---|
| `watermarks` | `MCWatermarks.cfg` | two writers, times to 2, one failure: loads are fresh, no save moves a merged watermark back |
| `compaction` | `MCCompaction.cfg` | crashes at every step, inside a swap too: refinement of `Archive` but for a torn swap, deltas dropped only when published, manifest right at rest, no duplicates, loss confined to the torn swap, every staged row published in the end |
| `pipeline` | `MCPipeline.cfg` | no silent gap, watermarks backed, the mirror never goes back and is complete in the end, each but for what a torn swap takes |
| `chunked_fetch` | `MCChunkedFetch.cfg` | nothing outside the range, nothing missed but seams |
| `chunked_fetch_seam` | `MCChunkedFetchSeam.cfg` | *violated*: a row on a seam is asked for by nobody |
| `fetch` | `MCFetch.cfg` | rate and burst, errors in the result, one retry after a 500, every station lands |
| `rolling_writer` | `MCRollingWriter.cfg` | size band, order, and the merge of a tail under a death at any step |
| `backfill` | `MCBackfill.cfg` | the walk, its repetitions, dispatches over the whole archive, append between: files sorted and complete, watermarks backed, loss confined, the walk reaches its end |
| `repartition` | `MCRepartition.cfg` | plans tile, clear the floor, nest and stay applicable; rows are where the plan says, once; loss confined to the fold; repetitions get there |
| `repartition_interrupt` | `MCRepartitionInterrupt.cfg` | *violated*: a run that dies in a fold has lost rows that no re-run brings back |
| `publication` | `MCPublication.cfg` | histories have their stations, documents agree with what they hash, a chain that ends has published, documents come to describe the archive |
| `listing` | `MCListing.cfg` | each object once where the two orders agree, every listing ends |

Bounds. Two writers that save copies of each other's rows, and two times for
"later"; that a third writer, with copies of copies, changes nothing is proved.
Three rows in two periods give a partition of two files and a run of two
periods, one of which has no partition yet; two append runs give a key two
deltas; one crash is enough for each single interruption, and the run after it
is complete.

`pipeline` has one station, three days and a window of two, so rows arrive late
by a day, and the row of day 1 falls behind the watermark of day 3; two versions
make a correction after the poll; days 1 and 2 share a partition, so a re-read
of the window rewrites one that also holds rows behind it; two deltas can be
staged at once and a clearing can stop between them; one death falls on any
step. With one station a watermark's own row is re-read and rewritten together
with its period, so in this run the exception of `WatermarkIsStored` is not
used. It is with a second station, whose delta makes the compaction rewrite a
partition that alone holds the row (two stations in one period, window 1 and two
days: 0.6 million states, also with deltas cleared in any order); that the
safety properties hold for any stations and periods is proved.

`ChunkedFetch` enumerates every range, span and set of times on a calendar of
three chunks, the last of them cut short. Six row groups of up to four bytes
against a target of five give three rolls and a tail of every size. In
`Backfill` three stations, one with a gap, one that starts late and one that
ends early, let a result overtake two others, and a period of two years lets a
result be partial. One roll lets a new first file lie beside an old second one.
The fault is a failed request, the death of a run or of a compaction, or a
failure of another shard, before, between or after complete runs. The walk alone
was also checked in a directory, with two rolls and two faults. `FailureShare`
is 10 in the code; 3 makes one station of three the tolerated share.

In `Repartition` two shards of a period and a roll after two rows give every
partition one or two files, the years 1, 2 and 4 leave a gap, and a floor of two
bytes lets each plan merge or keep years; two plans make a re-plan over moved
partitions, one ingest and one crash fall at any point between. `Fetch` has as
many threads as stations, one station with two windows, and a slot every two
ticks with sleeps of up to two, so a sleeper can be late by a slot; that more
threads change nothing is proved. In `Publication` two versions make "old" and
"new", one failure hits any step of any job and one pending job is dropped; with
three versions of the observations (1.8 million states) the result is the same.
`Listing` has six keys under two prefixes and pages of one or two, so pages end
before, inside and after a prefix; it takes the walk in order and with the two
periods swapped.

`CHECK_DEADLOCK FALSE` stands where a program ends: the walk over the windows of
one request, a writer that was closed or died, and a listing that is complete.

Fairness. `FairSpec` of `Compaction` lets a started run proceed (a process does)
and starts an untargeted clearing run again and again (the quarterly
schedule). `FairSpec` of `Pipeline` has the same for its jobs, and adds the
schedules of append and metadata;
strong fairness for the jobs of the `pcds-write` group, since another job may
hold the group each time one comes up. `FairSpec` of `Backfill` lets the pool and
the process proceed and has the operator start a walk that ended again; failed
requests, crashes and failures of other shards are bounded by `MaxFaults`, which
is the premise that they stop. `FairSpec` of `Repartition` has a command that
runs proceed and the operator start `repartition.py` again. That of `Fetch` lets
the clock tick and each thread run: a request has a timeout, a sleep an end. That
of `Publication` lets the running job proceed and takes the two crons strongly
fair, since a workflow that is still in the group when its time comes is not
started twice; `MaxFailures` and `MaxCancels` are the premise that jobs stop
failing and being dropped. That of `Listing` has the client ask for the next
page.

What the models show beside the runs, each a change of one constant away:

- `Compaction` with `SortedListing = FALSE` (a local root) does not implement
  `Archive`: a run that dies inside `clear_deltas` may leave the older of two
  deltas, which then wins over the newer row already in the partition.
- `Compaction` breaks a property that says a reader of the manifest finds its
  files: during a swap the manifest still names files that are deleted, so the
  sentence of the repository's README (line 476) that catalog-driven readers are
  safe holds only between runs (`ManifestAtRest`).
- In `Pipeline` a quarantined station stays so: `append` skips it, no scheduled
  job resets its counter, and there is no weekly sweep as `state.py:136` has it.
- In `Pipeline` a death between the deletes and the moves of a swap loses rows
  for good: they lie behind the watermarks, and `append` does not ask for them
  again. `NoSilentGap`, `NeverOlder` and `EventuallyMirrored`, and with two
  stations `WatermarkIsStored`, fail without the exception they name. `compact.py:140`
  calls that window "a real (short) inconsistency"; it outlives the run.
- `Backfill` replaces a complete file by one that lacks the rows of a request
  that fails in a repetition, although `walk.sh:7` says only a range that covers
  half a period can lose rows that way. A repetition that dies loses rows of
  stations that did not fail, too: the first of its files may already stand
  beside the second of an earlier run, and what that one's first file held
  between the two is in neither. `LossConfined` says how much.
- In `Repartition` a partition with one end outside the plan is taken for
  contained in the period of its other end (`repartition.py:98`), though the
  docstring promises a refusal. `RowsFollowLayout` therefore has the premise
  that the plan has a period for every year with rows.
- In `Repartition` an append that is compacted between `pcds layout` and
  `repartition.py` stores a row under the new label while an older copy is under
  the old one. `NothingStoredTwice` shows that the next complete run of
  `repartition.py` resolves it; a reader sees both until then.
- In `Listing` with the walk in another order than the keys, a listing of several
  pages skips or repeats keys. The two orders differ when `period=1990` and
  `period=1990-1995` exist side by side, as between a plan and its repartition.
- In `Publication` a weekly metadata refresh leaves the checksums of the
  documents behind until the next chain runs, up to a quarter later, though
  `portolan.py:354` calls a stale checksum worse than none. `ComesToDescribe`
  says that they catch up. A job of the chain that the group drops is not made
  up for before the next schedule.
- `RollingWriter` with `Ceiling = Target + Floor`, which the constructor
  accepts, breaks `SizeBand`: a file passes the target by up to a row group
  before it is closed, so a merged tail may pass the ceiling. `pack.py:81-82`
  leaves the row group out of its worst case.
- `Backfill` with dispatched ranges that share a period breaks `LossConfined`
  without any failure: the second run's file replaces the first one's.
- A compacted period need not be complete, though `walk.sh:10` takes it for
  finished: in `Backfill` a compaction that dies between two of its moves leaves
  some part files of the period, up to a tenth of the stations may have failed,
  and a compaction of append's deltas leaves the same marker in a period the walk
  has not reached.

## 4. Proofs

Each safety invariant and each action property that a run checks is a theorem of
the same specification, for every value of the constants that the `ASSUME`s of
the component modules allow (sets and numbers of the right kind). Some theorems
have a premise of their own, named below.

`WatermarksProofs` proves `TypeOK`, `LoadIsFresh` and `MergedNeverRegresses` for
any stations, writers and bounds. `LoadInv` is inductive: what a loading writer
has merged so far is at least what the objects it has already read held when it
listed them, and what it has not read yet has not gone back since. The second
half is why the whole-map saves are safe, and it needs that every save
publishes a map that started from the object it replaces.

`CompactionProofs` proves `NoDuplicateRows`, `ManifestAtRest`,
`DroppedWasPublished`, `LossConfinedToSwap` and the refinement `ImplementsArchive`
for any rows, runs, periods and file sizes and a death between any two steps.
`CompactionInv` follows a row through a rewrite. It is in one file of the
partition of its period (`Homed`); while old files go, a row that no delta holds
is also in the staged files (`Deleting`); while new ones come, none of their rows
is there already (`Moving`), and every staged version is either still to be
moved in or there (`Rewritten`). Once a period is done its deltas are in it
(`Folding`), which lets the deltas go (`Clearing`). The last two theorems have
the premise `SortedListing`: deltas must go oldest first, and on a root that lists
in another order the model shows they need not (§3). The refinement maps a step
to `Ingest`, `Publish`, `Hide` or a stutter of `Archive`, or to `TornSwap`, the
death in a swap that the property names.

`PipelineProofs` proves `TypeOK`, `NoSilentGap`, `WatermarkIsStored` and
`NeverOlder`, the last three where `SortedListing` holds, for a half-cleared
staging area has the newest of its deltas only if the oldest goes first.
`PipelineInv` adds that the service reports only the past (`InThePast`), that
nothing stored is newer than the service's version (`Versioned`), and what the
running append holds in memory (`RunBacked`): `fetched` covers, for every station
polled so far, all that lies between the saved watermark minus the window and the
new one, in a version that is outdated only inside the window. Of a compaction it
says where a row is at each step: while a swap deletes, what is left of the
partition is in the new files in the same or a newer version, and while it
moves, what is there already is the new files' (`InMotion`); what a delta holds of
a period that is done is in its partition, which lets the deltas go
(`FoldedIsBase`). So a step of the swap moves no row out of `Stored`, and a death
in it moves into `lost` exactly what only the new files held. `NeverOlder` names
that step (`TornSwap`), with the period it is confined to.

`BackfillProofs` proves `FilesSorted`, `FetchedIsHeld`, `SavedIsComplete` and
`LossConfined` for any stations, histories, periods, ranges and numbers of
files, on either kind of root, in whatever order results land and wherever a
writer rolls. `BackfillInv` says that the tables of closed and of open files are
in the order of their stations and of leading stations only (`Filed`,
`Streamed`), that the file a run has closed last is of stations before those of
the open one (`Rolled`), that the `.merging` object is in order and holds the
file whose name it takes (`Merging`), that a result without an error is complete
(`Answered`), that each row the loop has passed is in an open file, a closed one
or the `.merging` object (`Written`), that a watermark changed in memory belongs
to a leading station without an error (`Marked`), and that during the swap of a
compaction what is left of the partition is staged (`Swapping`). It rests on
lemmas about `InOrder`: the enumeration of a finite set in ascending order
exists, and appending a later one to an earlier one stays sorted. `LossConfined`
has the premise `WholePeriods`, that a dispatched range covers whole periods,
which the walk's ranges do by themselves and which `walk.sh:7` asks of an
operator. It follows from this: while a run fetches, each row of a period it
asks for is in the archive, in the hands of the run, still to come, or of a
station that failed in it (`RowsAreSecured`).

`RollingWriterProofs` proves `SizeBand` for every target and floor when the
ceiling leaves room for a row group more than the constructor checks: `BandInv`
says that each closed file is between the target and a row group above it, and
follows the two files and the merged one through the steps of `_merge_tail`. It
proves `GroupsInOrder` and `NothingVanishes` without that premise: by `OrderInv`
the files are intervals in order that leave no group out, and the merged object
spans what is left of the two it replaces, begins where the ones before end and
is there whenever one of the two is not.

`RepartitionProofs` begins with `PlanTiles`, `PlanClearsFloor` and `PlanNests` of
`plan_periods` for any years, sizes, cuts and floor. `ScanInv` is the invariant
of the loop: the periods cut so far tile the years before `start`, each ends
where a cut may land and weighs at least the floor, and `acc` is the weight of
what follows. The merge of the tail needs that the last period is the one that
ends before `start`. Every behaviour of `Repartition` satisfies `PlanSpec`
(`LayoutRunsPlanner`, by the invariant that there are finitely many files, so the
rows of a year can be counted), so each plan `pcds layout` finishes is sound,
whatever was written, moved or interrupted before.

The same module proves `PlanApplies`, `RowsFollowLayout`, `NothingStoredTwice`
and `LossConfinedToFold` for any rows, shards, ingests and deaths.
`RepartitionInv` has a part about the store (one object of a name, at most one
copy in flight, and in a swap the staged rows are apart from what is left and
include what is still to be deleted), one about a plan being made (`Told`: it
knows all the years of each partition and no cut falls inside one) and one about
a run: each partition lies in one period of the plan (`Nested`); a move's source
holds only years of its target, what is outside the plan is listed and has a
move, a target that is done holds each row once (`Course`). `LossConfinedToFold`
speaks of runs that began `tidy`. Its proof failed until the property named a
case that the run's bounds do not reach: a file moved onto an object of the same
source and name that a dead run left under the target replaces it (`Left`). That
of `PlanApplies` failed until `sound` excluded strays, which the run's bounds do
not reach either.

`FetchProofs` proves `TypeOK`, `PoliteInBursts`, `ErrorsSurface` and
`ReproducibleNotHammered` for any threads, stations, retries and rate. `RateInv`
says that what is in the bucket and what threads with a slot will still add is
never more than `next` and a slot per thread, and that each slot in the future
belongs to a thread that sleeps for it. `ResultInv` says that a station belongs
to one thread, to the queue or to the results, and that a thread has met one 500
at most. Of `ChunkedFetch` it proves `StaysInRange` and `OnlySeamsMissed` for every
range, span and chunk length: what is before `lo` and in the range has been
fetched, or failed, or is a seam, and `lo` never passes the clipped end.

`PublicationProofs` proves `HistoriesHaveStations`, `DocAgreesWithItself` and
`ChainPublishes` for any number of versions, failures and dropped jobs.
`PubInv` says that what a job has left to do is the end of its list of steps and
that only the job that has the group has begun (`InCourse`). From the place in the
list it follows what memory holds: a refresh that writes tables has stations at
least as new as the published ones (`Refreshing`), a build has a manifest at least
as new (`Rebuilding`), along the chain what compaction left reaches the manifest,
the summary, the summary that was read and the document (`Cataloguing`,
`Documenting`), and a table about to be described is the one that was loaded
(`Loaded`). `DocAgreesWithItself` is about the four metadata tables; the document
of the observations is not, since shards write them outside of the group. Since all of it is about one job at a time, other workflows can come
between the jobs of a chain, not into one.

Of `Listing` it proves `ListedOnce` for any keys, prefixes, pages and changes
between them. `Orderly` holds where the walk goes as the keys do, which is the
premise inside `ListedOnce`: what is up to the token and stayed has been given
once, nothing behind it has, and no prefix has keys on both sides of it that a
later page could give again.

Model-checked only: the liveness properties (`StagedGetsPublished`,
`EventuallyMirrored`, `EveryStationLands`, `WalkCompletes`,
`PartitionsFollowPlan`, `ComesToDescribe`, `EveryListingEnds`), since the provers
do not reach fairness. The two runs that find a violation are counterexamples
on the instances they name.

## 5. Plan

1. A composition of `Backfill`, `RollingWriter` and `Compaction` with shards and
   deltas at the same time; files without a footer on a local root.
2. Theorems: that `Backfill`'s file of a period is what a `RollingWriter` makes
   of it; that a run of `repartition.py` leaves `Archive`'s content alone but for
   the losses named; the exact cause of `RerunLosesNothing` failing (no loss
   without a death in a swap) as an invariant of its own.

## 6. Not modelled

The text, columns and links of STAC documents, thumbnails, GeoParquet encoding,
logging and formatting; `plan`'s recommendation of a cadence; `verify`,
`failures` and the conformance job, which only read; `--limit` and `--networks`.
Schema and value conversions of `melt`. Range requests of the bucket server. The
viewer, which is a page of JavaScript that only reads. Files that a death leaves
without a footer on a local root, and what a reader makes of them: a file is
complete here, empty (`LocalRoot` of `Backfill`) or not there. Spans of stations
that a service outgrows between a metadata refresh and a backfill.
