# Verification of airflow-export-to-object-store

TLA+ models of the export operator in
`src/src/airflow_export_to_object_store`, the TLC runs that check them on small
instances, and TLAPS proofs of what matters most for every instance. Paths in
this file are relative to that directory unless they start with `docs/`.

## The system

`StreamingExportOperator.execute` (operator.py) exports the result of an SQL
query to an object store as Parquet files, one per *shard*.

| Component | State it keeps | Operations |
|---|---|---|
| Export run: `execute`, `incremental.py`, `manifest.py` | watermark window, shard results; outside: XCom, objects, manifest | health checks, read and compute the watermark, run the shards, write the manifest, push the watermark |
| Orchestration: `_run_shards`, `execute_shard` | futures, the shared cancel event | submit, wait for the first exception, cancel, wait again, collect, shut the pool down; probe for an existing object |
| Shard pipeline: `ShardWorker` (parquet_io.py) | queue of two batches, `_stop`, `_errors`, local file, connection, temporary directory | fetch, write and heartbeat threads, watchdog, checks after the join, validation, upload, cleanup |
| Staging directories: `_clean_old_tmp_dirs`, `ShardWorker._run_inner` | the directories in `tmp_dir` | make, remove at the end, clean leftovers of a day |
| Uploads: `retry.py`, `uploaders/` | attempts; outside: the object | upload with retries, exists |
| Preflight: `_health_checks`, `uploaders/` | the plugin registry, the probe object | discover plugins, resolve the uploader, check the credentials |
| Native unload: `unload/` | none; outside: the directory | run the warehouse's unload, list what it wrote |
| Database adapter: `db_adapter.py` | connection, engine, cursor | resolve, cursor, close |
| Templating: `templating.py` | `sql_params`, kept from call to call | merge and flatten the variables, render |
| Metrics and default manifest path: `metrics.py`, `manifest.py` | totals of an operator object | merge, summarise |
| Options, utilities, tracing | frozen options | - |

They interact by calls (operator to pool to worker to adapter and uploader), by
shared state (the cancel event, `_stop`, `_errors`, the queue), by a timer
callback (the watchdog), and, between the tries of a run and between runs, only
through what survives them: objects, manifest and XCom.

What is hard: four threads and a timer per shard, all ending on flags that are
read at different times; a bounded queue that is closed by a sentinel; failure
of one shard while its siblings are queued, running or finishing; tries that are
killed between two of their effects and repeated against a source that has
moved. `PROJECT.json` lists the hazards at their lines with the properties that
cover them.

What makes each component correct:

- *pipeline*: nothing partial is ever uploaded; "no data" is only said of an
  empty result; resources outlive the threads that use them; a stop, a cancel or
  a deadline ends the shard.
- *orchestration*: a list of results is complete; a failure ends the run as a
  failure; nothing of the run goes on after it has ended, unless it was interrupted
  again while it waited for that.
- *uploads*: an object is one whole file, whoever has uploaded it and how often, and
  a URI is only returned for a file that is there.
- *unload*: the results of a listing are what the statement wrote; no row below a
  watermark stays missing.
- *export run*: a watermark is never ahead of the data in the store, nor of the
  catalogue; a manifest describes its files.
- *staging directories*: a running shard keeps its directory; leftovers go.
- *chunks*: the tables in memory are bounded.
- *adapter*: what was opened is closed, in order.
- *preflight*: plugins only add; a verdict says something about the credentials.
- *templating*: a template sees this call's window, and no value has the name of
  another one.
- *report*: a manifest is where its files are; totals agree.

## Modules

| Module | Models | Runs |
|---|---|---|
| `ShardContract` | what the pool may rely on from one shard (abstract) | as `ImplementsContract` and `ShardsKeepContract` |
| `ShardPipeline` | one `ShardWorker.run` with its threads | `shard`, `shard_*` |
| `ChunkTuning` | the sizes and lifetimes of the batches in it | `parts` |
| `DbAdapter` | `UniversalDbAdapter` in the hands of a shard | `parts` |
| `ShardPool` | `_run_shards` and `execute_shard` over `concurrent.futures` | `pool` |
| `StagingDirs` | the directories of exports with one `tmp_dir`, and the cleaner | `staging`, `staging_in_use` |
| `ExportRun` | tries of several scheduled incremental runs | `export`, `export_skipped_rows` |
| `UploadRetry` | uploads of one path under `with_retries`, per backend | `upload_retry` |
| `UnloadRun` | tries of a native unload, per strategy | `unload_retries`, `unload_leftovers` |
| `Preflight` | plugin registry, choice of the uploader, health checks | `parts` |
| `Templating` | which value a name has in a template | `parts` |
| `RunReport` | default manifest paths and totals | `parts` |
| `UnloadWindows` | the rows of incremental unloads over several dates | `unload_retries` |
| `Unloads` | `UnloadRun` and an instance of `UnloadWindows` | `unload_retries` |
| `MCUnload` | a behaviour of one of the two | `unload_retries` |
| `Parts` | the five small components (`ChunkTuning`, `DbAdapter`, `Preflight`, `RunReport`, `Templating`) with variables of their own | through `MCParts` |
| `MCParts` | one of them at a time, with values for their constants | `parts` |
| `ShardPipelineProofs`, `ShardPoolProofs`, `ExportRunProofs`, `UploadRetryProofs`, `UnloadRunProofs`, `UnloadWindowsProofs`, `StagingDirsProofs`, `PartsProofs` | the theorems about the module they are named after | |

They compose in steps. `ShardPipeline` is shown to implement
`ShardContract`; `ShardPool` does not repeat the pipeline but lets each shard
behave as the contract allows, and checks that it does. `ExportRun` in turn
takes from the pool that a shard has an answer or the try fails, and that
siblings of a failed shard may still land. `UploadRetry` opens the one upload step
that the others take as a whole: an upload either lands as a whole or not, with or
without an answer. `UnloadRun` is the other branch of `execute`, and `UnloadWindows`
the composition of that branch with the tries and watermarks of `ExportRun`. `ChunkTuning`,
`DbAdapter` and `StagingDirs` open steps of `ShardPipeline` that are one there: the
memory of a fetch, the release of the connection, the local directory.

### ShardPipeline

One variable per thread says what it does next (`main`, `fetch`, `write`,
`heartbeat`, `timer`). `queue`, `stop`, `cancel` and `errors` are `_queue`,
`_stop`, `_cancel` and `_errors`. A batch is named by its position in the
result; `fetched`, `kept`, `sent` and `written` say how far the data has come:
returned by the cursor, not filtered out by the transform, put in the queue,
in the local file. A chunk's content and schema alignment are abstracted: they
change no control; its size is the subject of `ChunkTuning`. Whether the options
give a deadline is chosen in the initial state. A driver call, a write or
an upload may raise wherever the code calls it; an upload may raise after it has
landed.

- `queue.put(timeout=2)` that fails drops the batch (`FetchPutFull`), as the code
  does: the loop goes on with the next fetch.
- `queue.get(timeout=5)` and the look at the stop flags after it are two steps
  (`WriteEmpty`, `WriteIdle`): a batch may arrive in between.
- `_on_deadline` is two steps (`TimerExpire`, `TimerStop`), in the code's order.
- `writer.close()` may fail in the `finally`, which is recorded nowhere.

### ShardPool

`operator` is the position in `_run_shards`, `future` the state of each future,
`shard` how far `execute_shard` is. The library is external: its queue is first
in, first out. Mode, number of workers and `skip_if_exists` are chosen in the
initial state. In processes mode the library hands calls over to a call queue of
`max_workers + 1` entries, where `cancel()` has no effect; when a worker process
dies it fails every open future, while uploads under way may still have landed. A
death while a cancelled future is still in the queue is left out: what happens to
it then differs between versions of the library.

`Interrupt` is an exception in the main thread (Airflow's task timeout or a signal),
which may come up to twice and wherever `_run_shards` is. It leaves through the
`finally`, and nobody sets the cancel event: `pool.shutdown(wait=True)` lets the
shards that are queued and running go to their ends. That is the longest wait of the
main thread. A second interrupt there ends it, and the shards that are left go on
after the operator has raised. `NothingOutlivesRun` is claimed for every run with
one interrupt at most.

### ExportRun

Run *r* is the run of the *r*-th logical date. A row is its `updated_at`; rows
are committed in that order and do not change. Airflow is external: it starts
dates in order, at most `MaxActive` at a time, repeats or clears any finished
run, deletes a task's XCom when a try of it starts, and answers a pull with
`include_prior_dates` from the latest date. A try can end in failure at any step
(`EndFailed`), which stands for exceptions as well as for killed workers. Whether
there is a `watermark_query` or a template, and whether `skip_if_exists` is set, is
chosen in the initial state among the combinations in `Options`.
`write_manifest` is taken to be on and every run to have its own directory, as
in the documented production set-up. A manifest lists every result: for a shard that
was uploaded or skipped, the object at its path (`Listing`).

Nothing of a try is taken to go on after the try has ended. `ShardPool` shows it for
every run with one interrupt at most; shards that a second one leaves behind, and
what a killed worker had sent, are the subject of `UploadRetry` only, object by
object.

### UploadRetry

`at` is the position of a writer in `upload()`, `attempt` the counter of
`with_retries`. The options and the size of each file are chosen in the initial
state. Every request of a backend may be refused, land and be answered, or land
and lose its answer; `Fails` is the `except` branch of the retry loop. The length
of the backoff is abstracted. Put and Put Block List of the stores are external:
a put is atomic and discards staged blocks, a block list takes the latest block
of each id and is refused when there is none. `overlapped` records whether two
block uploads have been under way at the same time.

### UnloadRun

`store` says which try has written each key of the directory, `results` which keys
the try has reported, `catalogue` what the manifest lists and in which version.
The strategies run with their default options. Snowflake's `COPY INTO` answers, as
`perFile` says, either one row per file or, as it does for the statement that
`_build_copy_sql` builds, without `DETAILED_OUTPUT`, a single row of three columns.
`_extract_unload_columns` finds no file name in that one, so that the only result is
the target directory itself (`Directory`, where nothing is), for any number of files
and for none. Nothing can be said of the results then; that the statement's files are
in the store when the watermark is pushed is checked all the same. Emptying the
directory (`CLEANPATH`) is one step with the beginning of the statement.

### UnloadWindows

`ExportRun` with the other branch of `execute()`: window, watermark and Airflow are
the same, and one statement takes the place of the shards. Every date has its
directory; the warehouse gives each row of the window to some file, another one at
every try, into a directory that `CLEANPATH` has emptied (Redshift) or whose files
stay until they are written over. A statement that fails leaves some files written,
or none, and a try without a result leaves the manifest alone. With the single row
of Snowflake the manifest lists the bare directory and no row is in what it lists:
there the property speaks of files only. A statement that goes on in the warehouse
after its try was killed is not modelled.

An upload replaces an object in one step, so that a cleared date never takes a row
away (`NothingLost`). A statement does not: between the clear and the next success
the rows of that date may be in no file, while later watermarks stand. What holds is
`RowsBackOnceDone`: once every date up to a watermark has succeeded again, no row
below it is missing from files, and none from manifests if the results name files.

### StagingDirs

An export is an `execute()` on one machine with one shard at a time; all of them
have the same `tmp_dir`. `there`, `age` and `file` are the disk: the directories,
the time since their mtime, and which have a Parquet file in them. The mtime moves
when the file is created or removed, not when it grows. The cleaner is four steps,
as in the code: clock and listing, a look at each item, its removal, and the end of
the loop when an item vanishes between the two calls of a look. `rmtree` may get
nowhere or only as far as the file.

### ChunkTuning

The tables of the fetch thread (`new` in `fetchmany`, `tbl`), the queue and the
writer, with the arithmetic of `_memory_budget`, `_auto_tune_chunk` and the cut
after a full queue. Widths of rows are constants in units of 32 bytes. A table
lives as long as a variable of the code refers to it; what they take is summed over
these references, so that a table with two of them counts twice. The tuning may fail:
`_auto_tune_chunk` then gives back `chunk_rows` as it was, and it is not tried again
(`tuned`). From there a full queue can even raise it, to the 1000 rows at which the
cut stops. `PeakBounded` is therefore said only once the tuning has succeeded, and of
batches with rows no wider than those of the one it has seen; nothing bounds the
tables otherwise. A transform that multiplies rows and the copies that `fetchmany`
and the Parquet writer make are left out.

### DbAdapter, Preflight, RunReport, Templating

`DbAdapter` follows each object (hook, connection, cursor) from its creation to
`close()`; which of them can be closed and what the hook's connection offers is
chosen in the initial state. `Preflight` has one action per request of a health
check; the store answers as the chosen `rights` say, or fails, with or without
effect. On Azure and S3 `get_conn()` is called outside of every `try` and may end the
check before the first request (`NoClient`). `RunReport` has paths as sequences of
characters, since a common prefix is one of characters, and several calls of
`execute()` of one object. `Templating` has a name as the sequence of its words, so
that a nested key and a plain one can have the same name, and `sql_params` as it is
kept from one call to the next.

What they assume of their constants is in `Parts`: mappings have paths of one key or
more, as Python's have (`PartsAssumption`), and an installed plugin has a name of its
own (`NamesAssumption`; without it one would take another one's place in the registry
unnoticed, which is not a question of their order).

## Runs

Every run is deadlock-checked, except those of `ExportRun`, `UnloadRun` and `UnloadWindows`, where
all tries may be used up, and `parts`, whose components come to their ends.

| Run | Instance | Shows |
|---|---|---|
| `shard` | 4 batches, queue of 2, with or without deadline, with cancel | types, `UploadIsWhole`, `EmptyMeansEmpty`, `CleanupSafe`; a stop ends the shard, with a deadline it always ends, and the only way to hang is a sentinel that was given up; the contract is implemented |
| `pool` | 3 shards, 1 or 2 threads or processes, skips, interrupts, deaths | results are complete, nothing outlives the run unless it was interrupted twice, a failure fails it, the operator ends, shards keep the contract |
| `export` | 2 dates, 2 shards, 3 rows, 3 tries each, overlapping; query, template, or template with skips | no row lost, manifests sound, and the catalogue is not behind the watermark |
| `upload_retry` | 2 writers, files of 1 to 3 blocks, 1 retry, every backend and option | the object is one whole version, answers are true, retries end |
| `unload_retries` | 4 tries of up to 3 files, every strategy; 2 dates, 2 rows, 2 files, 2 tries each, overlapping | results are what was written (Redshift; BigQuery: at least that), the watermark of a try with a result has a current manifest, no row is missing once every date has succeeded |
| `staging` | 2 exports, 4 directory names, a day of one tick, 2 faults | a shard keeps directory and file for a day, leftovers go |
| `parts` | each small component with every choice of its environment | `PeakBounded`; `Released`; `PluginsOnlyAdd`, `VerdictMeans`, `ProbeRemoved`; `ManifestApart`, `TotalsAgree`; `WindowInEffect`, `NamesApart` |

The bounds are the smallest at which the interesting cases happen. Four batches
are one more than the queue and the writer's hand hold, so that a batch is
dropped while others are under way; two failed puts of the sentinel stand for
sixty, since the count only decides when it is given up. Three shards on one
worker process fill the call queue (two) and leave one that can be cancelled; on two
workers one dies next to a sibling.
Three tries let a run fail, succeed and be cleared; two dates overlap. For the rows of
unloads two tries are enough: one leaves files, the other fails or replaces them. Two writers
with three blocks can interleave at every block boundary, and a file of one block
takes Azure's other way; one retry suffices to meet what an attempt has left.
Two exports are a shard and the cleaner that meets its directory; with four names
there is a fresh one while both export, both know an old one and two are left
over. One tick is the coarsest clock that tells within a day from after it. Five
tables can be alive at a time, and the first batch of six has tuned the chunk.
Two calls of `execute()` are one and its successor in the same process.

### Where the documentation says something else

Each of these runs checks one sentence of the documentation and TLC finds it
violated by what the code does; `PROJECT.json` quotes the sentences.

| Run | The code |
|---|---|
| `shard_dropped_batch` | drops a batch when the queue is full for two seconds, and succeeds |
| `shard_lost_sentinel` | gives the sentinel up after 30 s; the writer polls for ever, and the deadlock detector comes after an unbounded join |
| `export_skipped_rows` | loses rows when `skip_if_exists` meets a `watermark_query` on a retry |
| `unload_leftovers` | reports leftovers of earlier tries, and the operator's own manifest, as files of a BigQuery unload |
| `staging_in_use` | takes the directory of a shard that has run for more than a day for a leftover |

The same reading of code and documentation shows differences for which no run is
kept; the models allow each of these behaviours:

- a deadline that fires after the join is recorded and never read, so that the
  shard still uploads (`CheckErrors`; docs/explanation/limits.md:37 says the file is
  abandoned);
- a `cursor()` that raises leaves the connection open (`OpenCursor`;
  docs/how-to/handle-failures.md:96 excludes orphaned connections);
- a queued shard can start after a sibling has failed, and in processes mode calls
  in the call queue start after the cancellation (`Start`, `HandOver`;
  docs/explanation/concurrency-model.md:35, :37);
- a worker process that dies takes the other running shards with it (`BreakPool`;
  docs/explanation/concurrency-model.md:21, :29);
- when the push of a watermark fails, the next run exports the same rows again, and
  a retry selects other rows than the try before (`CommitWatermark`,
  `ComputeWatermark`; docs/explanation/idempotency-and-state.md:16);
- the manifest of an earlier success stays while a new try fails half way
  (`WriteManifest`; docs/explanation/idempotency-and-state.md:18);
- a run that uploaded nothing still pushes its watermark (`CommitWatermark`;
  docs/explanation/idempotency-and-state.md:50);
- `overwrite=False` has no effect on S3, on GCS and on Azure files of 5 GiB or more
  (`UploadFile`, `UploadGcs`, `Commit`; docs/how-to/handle-failures.md:115);
- `chunk_rows` governs the first batch only: the tuning replaces it by 10 000 rows or
  more (`Take`; docs/reference/shard-options.md:24,
  docs/explanation/streaming-pipeline.md:23);
- `memory_limit_mb` enters the size of a chunk, per operator and divided by the
  workers; nothing checks resident memory or pauses (`Budget`;
  docs/reference/shard-options.md:25, docs/explanation/limits.md:11; nor does the
  warning of docs/how-to/handle-failures.md:140 exist);
- a health check can refuse credentials that may write but not read: on S3 without
  the right to the bucket's properties, on Azure without those to delete, list and
  read properties (`Delete`, `Meta`; uploaders/base.py:37 says reading *or* writing),
  and it is more than the "bucket HEAD" of docs/explanation/architecture.md:67 on
  Azure and GCS, and nothing for the generic AWS hook;
- a plugin whose `matches()` raises ends the resolution of every hook that no
  uploader before it serves (uploaders/base.py:91, docs/explanation/design-decisions.md:67);
- `total_rows` of a second call of one operator object includes the first
  (`RunShards`, `Return`), while its manifest does not;
- a skipped shard answers with no rows, bytes or digest (`SkipShard`; options.py:51
  and docs/reference/result-shape.md:17 say they describe the local file), and there
  are no per-phase timings (docs/reference/operator.md:67);
- `COPY INTO` without `DETAILED_OUTPUT` answers a single row of three columns, which
  becomes one result with the bare directory and the count of all rows
  (`SnowflakeRows`; docs/tutorials/03-native-unload.md:177, :236 and the docstring of
  `_rows_to_shard_results` say one row, and the size, per file);
- `sql_params` are variables of the templates (`Flattened`; docs/reference/operator.md:29
  says they go to the driver and not to `sql_template`). They beat Airflow's context
  in a shard and give way to it in an unload (`TemplateContext`);
- the watermark query is rendered before the window is known and without the shard
  (`RenderQuery`; incremental.py:42 says with the context of the main query): a
  `watermark_prev` in it is undefined at first, and that of the call before in a
  later call of the same object.

### Fairness

`ShardPipeline`: weak fairness for each thread as a whole. The operating system
runs every thread, and every call the code makes without a timeout is assumed to
return (drivers, file system, storage client); the code has no bound of its own
for them. A shard therefore ends *given* that its calls end. No fairness is
assumed for `Cancel`. `ShardPool`: weak fairness for the operator, for the pool's
handling of each queue entry and for each running shard; the last is what
`Termination` of `ShardPipeline` gives when a timeout is set. None for
interrupts and deaths. `UploadRetry`: weak fairness for each call of `upload()`, since
every request returns or raises and `time.sleep` returns; none for kills and for
new writers. `StagingDirs`: time passes, exports go on being scheduled and every
call returns; none for faults, whose number is bounded. `ExportRun`, `UnloadRun` and
`UnloadWindows` have no liveness property: whether a run is tried again is Airflow's
choice.

## Proofs

All of them hold for every value of the constants that satisfies the named
assumptions (`PipelineAssumption`, `PoolAssumption`, `RunAssumption`,
`UploadAssumption`, `UnloadAssumption`, `StagingAssumption`, `TuningAssumption`,
`PartsAssumption`, `NamesAssumption`). Every safety invariant and every action
property that a passing run checks is the subject of a theorem, and so are the two
refinements of `ShardContract`.

`ShardPipelineProofs` proves `TypeOK`, `UploadIsWhole`, `EmptyMeansEmpty`,
`CleanupSafe` and the refinement of `ShardContract`. `CleanupSafe` speaks of the closes
that were registered: a connection whose `cursor()` has raised stays open. None of
these is inductive.
The invariant `Inv` adds:

- `Positions`: where each thread is in the data;
- `Control`: which control states of the main thread, the fetch and write threads
  and the resources go together;
- `StopHasCause`: before the join a stop always has an error on record (this is
  where the order of the two statements in `_on_deadline` matters);
- `Quiet => Flow`: as long as there is neither an error nor a cancel, the file,
  the batch in the writer's hand and the queue together are exactly what was sent,
  and only the sentinel ends the writer;
- `Decided`: what the main thread has established at each check, so that the
  result stays whole from the checks to the upload, when a late deadline or
  cancel can no longer change it.

`WriterIsTold` is what the liveness of the pipeline rests on: once the fetch thread
has ended, the writer is about to end, or a stop will end it at the next empty queue,
or the sentinel is the last entry of the queue, unless it was given up.

`ExportRunProofs` proves four invariants in layers. `Base` holds with any options, and
in `UnloadWindows` too: types, what exists before its time (`Existing`), what position
and answers of a try say of each other (`Status`), and that an open window ends after
every row of the objects that earlier tries have left (`WindowEnd`). On it rest:

- `ManifestSound`, with any options: `Recorded` says what an answer tells of the object
  and what the manifest lists at each position after it was written.
- `NothingLost`, under the assumption that `skip_if_exists` is not combined with a
  query watermark (`Compatible`). A watermark says only where the next run starts, so
  that `Inv` records what the running tries have read (`Coverage`: earlier dates cover
  what lies before an open window; shards that have answered cover the window; an
  object that may be skipped covers its own). The key lemma is `UploadKeepsCover`:
  replacing an object never uncovers a row. With `skip_if_exists` and a query the last
  part of `Coverage` is false, and `export_skipped_rows` shows the rows that are lost.
- `CatalogueCovers`, under the same assumption: `Catalogue` says of manifests what
  `Coverage` says of objects, also of an object that may be skipped (`SkippedListed`).
  A new manifest replaces one that lists no row past the window (`ListedRows`), so that
  replacing it takes no row out of the catalogue either (`ManifestKeepsListed`).

`UnloadWindowsProofs` proves `RowsBackOnceDone`, and `UnloadRunProofs` carries it over
to the instance that `Unloads` makes. Between a clear and the next success the rows of
a date may be in no file, so that there is no cover to keep. What is kept (`RowsKept`)
is where each row is or will be: with a date that has succeeded and has it in its
files, with a running try whose window reaches it, or with a date that is to run
again and whose window will reach it, since a source only grows and a template stays.

`ShardPoolProofs` proves `TypeOK`, `ReturnIsComplete`, `NothingOutlivesRun` and
`ShardsKeepContract`. The invariant says how future and shard agree (`Agrees`), what
the operator has established at each position (`Positions`: which futures are
settled, and that a collected result has its object; after the end, that all of them
are unless there were two interrupts), and that there are never more
running shards than workers (`Fits`, on the cardinality of a finite set).
`PoolNeverStalls` is what `Termination` rests on: while a future is open the pool can
drop, hand over or start a shard or a shard can go on, so that none of the operator's
waits is for nothing. With
`PipelineImplementsContract` this closes the composition: what holds of the pool for
shards that keep the contract holds for `ShardWorker.run`.

`UploadRetryProofs` proves `TypeOK`, `OneVersion` and `ReturnedIsThere`. The blocks
that the current attempt counts on are all its own (`Own`), or a put of another writer
has swept one away (`Swept`); then the object has no blocks either, so that the commit
is refused and cannot mix two files. This needs that one writer at most is staging
(`Alone`), which is what `overlapped` excludes.

`UnloadRunProofs` proves `TypeOK`, `ResultsAreProduced` and
`CatalogueMatchesWatermark`, from what the statement has written (`Wrote`), what the
manifest describes once it is written (`Described`) and that the watermark comes
last (`WatermarkLast`). Nothing is claimed of Snowflake's results, of the manifest
that a try without a result leaves alone, or of the manifest's own version.

`StagingDirsProofs` proves `TypeOK` and `SafeForADay` for any number of exports: the
directory of a shard within its day has an mtime no older than the shard, and no
cleaner has it in mind as old (`Young`); a name that is not in use has no age, so
that a fresh one starts from nothing (`Idle`).

`PartsProofs` proves everything that `parts` checks.

- `ChunkTuning`: `PeakBounded`, once the tuning has succeeded: `Fits` says that
  whatever batch is referred to has been fetched with a chunk no larger than the tuned
  one, and `TunedSize` what so many rows take, with the floor of 10 000 rows among it.
- `DbAdapter`: `Released`; what is still open at each position is what the adapter
  still holds (`HeldCursor`, `HeldConn`, `HeldHook`).
- `Preflight`, for any number of plugins: `PluginsOnlyAdd` from `RegistryOrder` (the
  registry is the three built-in uploaders and then the plugins that load, in their
  order); `VerdictMeans` and `ProbeRemoved` from what the requests so far have shown of
  the rights (`Learnt`) and where the probe may be (`ProbeKept`).
- `RunReport`, for paths of any length: `ManifestApart` and `TotalsAgree` from
  `AtItsPath` and `Wrote`. `RemoteDirIsDeepest` is the lemma on paths: the common
  prefix of characters, cut at its last slash, is the deepest common directory.
- `Templating`, for any mappings: `WindowInEffect` and `NamesApart` from what a
  rendered template has seen (`RenderedNow`), that the window is in both layers by
  then (`Injected`), and how merged layers hide each other (`Merged`, `FlatLayers`).
- `PartsTyped`: the types of all five.

The invariants were checked with TLC before they were proved. Only model-checked: the
liveness properties (`StopEndsShard`, `Termination` of the pipeline and of the pool,
`HangOnlyAfterGiveUp`, `FailureEndsRun`, `UploadEnds`, `LeftoversGo`), which depend on
fairness, and fairness is defined by ENABLED, which the prover does not handle. Nor is
anything proved about the configurations of the violating runs. The name of a
path is a recursive function of the community modules, of which the proofs need no
more than its value for one key; longest prefixes and first entries are shown to
exist from the well-foundedness of the naturals (`LeastExists`, `FirstExists`),
not by induction.

## Not modelled

Options, encryption, tracing and utilities: frozen values, arguments of the vendor's
SDK, and pure data. Jinja itself and the test of rendered paths for `..`. The
transfers of the vendor SDKs, log output and throughput figures. The lengths of
pauses in `with_retries`. A `Thread.start()` that fails, which would leave the
heartbeat thread running, and a plugin whose `matches()` raises. Rows that become
visible out of the order of `updated_at`: the documentation names them a limit of the
method. Leftovers in the system's temporary directory when there is no `tmp_dir`:
the cleaner then does nothing.

## Plan

What is left, most important first:

1. An abstract run of shards that `ShardPool` implements and that a try of `ExportRun`
   follows, so that the two are composed as pipeline and pool are.
2. An abstract object that `UploadRetry` implements and `ExportRun` uses.
3. `ExportRun`: exports without a watermark, colliding paths of shards.
