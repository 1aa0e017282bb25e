----------------------------- MODULE UnloadRun -----------------------------
(***************************************************************************)
(* The native unload path of the operator: `_run_unload`, the manifest and *)
(* the watermark (operator.py) over the strategies of unload/.             *)
(*                                                                         *)
(* One scheduled run writes to one directory of the store, in any number   *)
(* of tries.  The warehouse is external: a statement writes files 1..n,    *)
(* where n may differ from try to try, and replaces files of the same name *)
(* (the default options); one that fails may leave some of them.  BigQuery *)
(* and Redshift do not say what they wrote, so the code lists the          *)
(* directory; Snowflake answers rows, of which only those of four columns  *)
(* and more, or with names, tell a file.                                   *)
(***************************************************************************)
EXTENDS Integers

CONSTANTS
    Strategies,     \* the strategies to look at
    MaxFiles,       \* most files of one statement (bounds the model)
    MaxTries        \* tries of the run, retries and clears together

ASSUME UnloadAssumption ==
    /\ Strategies \subseteq {"bigquery", "redshift", "snowflake"}
    /\ MaxFiles \in Nat /\ MaxTries \in Nat

Files == 1..MaxFiles
OwnManifest == 0            \* _manifest.json in the directory
WarehouseManifest == -1     \* the file that Redshift's MANIFEST clause adds
Directory == -2             \* the URI of the directory itself: nothing is there
Keys == Files \cup {OwnManifest, WarehouseManifest, Directory}
Absent == 0

VARIABLES
    strategy,           \* unload_strategy
    manifestInside,     \* manifest_path is unset: the default, in the directory
    unloadManifest,     \* RedshiftUnloadOptions.manifest
    perFile,            \* COPY INTO answers one row per file, not one of three columns
    at,                 \* what the current try does next
    tries,
    store,              \* the try that wrote each key of the directory
    produced,           \* what the statement of this try wrote
    results,            \* the keys in the ShardResults of this try
    catalogue,          \* the manifest: the version of each file when it was listed
    watermark           \* the try whose watermark is in XCom

config == <<strategy, manifestInside, unloadManifest, perFile>>
vars == <<config, at, tries, store, produced, results, catalogue, watermark>>

Running == {"match", "statement", "list", "manifest", "commit", "finish", "failing"}

Init ==
    /\ strategy \in Strategies /\ manifestInside \in BOOLEAN
    /\ unloadManifest \in IF strategy = "redshift" THEN BOOLEAN ELSE {FALSE}
    /\ perFile \in IF strategy = "snowflake" THEN BOOLEAN ELSE {TRUE}
    /\ at = "idle" /\ tries = 0
    /\ store = [k \in Keys |-> Absent]
    /\ produced = {} /\ results = {}
    /\ catalogue = [k \in {} |-> Absent] /\ watermark = 0

-----------------------------------------------------------------------------
(* Airflow.                                                                *)

\* The first try, a retry or a clear.  Airflow deletes the XCom of the task.
StartTry ==
    /\ at \in {"idle", "failed", "success"} /\ tries < MaxTries
    /\ at' = "match" /\ tries' = tries + 1
    /\ produced' = {} /\ results' = {} /\ watermark' = 0
    /\ UNCHANGED <<config, store, catalogue>>

\* A step raises or the worker is killed.
EndFailed ==
    /\ at \in Running /\ at' = "failed"
    /\ UNCHANGED <<config, tries, store, produced, results, catalogue, watermark>>

EndSuccess ==
    /\ at = "finish" /\ at' = "success"
    /\ UNCHANGED <<config, tries, store, produced, results, catalogue, watermark>>

-----------------------------------------------------------------------------
(* The operator and the strategy.                                          *)

\* Templates are rendered and strategy.matches is true (else EndFailed).
Match ==
    /\ at = "match" /\ at' = "statement"
    /\ UNCHANGED <<config, tries, store, produced, results, catalogue, watermark>>

\* db_hook.get_records(statement): it starts from directory `start`, writes files
\* 1..n and those of `extra`.
Statement(start, extra) ==
    /\ at = "statement"
    /\ \E n \in 0..MaxFiles :
          LET Written(ks) == [k \in Keys |-> IF k \in ks THEN tries ELSE start[k]] IN
          \/ at' = "list" /\ produced' = 1..n /\ store' = Written(1..n \cup extra)
          \/ at' = "failing" /\ store' \in {store, Written(1..n)} /\ UNCHANGED produced
    /\ UNCHANGED <<config, tries, results, catalogue, watermark>>

\* EXPORT DATA with overwrite=true: other files stay.
ExportData == strategy = "bigquery" /\ Statement(store, {})

\* COPY INTO with OVERWRITE = TRUE: other files stay.
CopyInto == strategy = "snowflake" /\ Statement(store, {})

ExtraFiles == IF unloadManifest THEN {WarehouseManifest} ELSE {}

\* Faulty variant of RedshiftUnload: no CLEANPATH clause.
RedshiftUnloadOver == strategy = "redshift" /\ Statement(store, ExtraFiles)

\* UNLOAD with CLEANPATH: the directory is emptied first.
RedshiftUnload ==
    strategy = "redshift" /\ Statement([k \in Keys |-> Absent], ExtraFiles)

Present == {k \in Keys : store[k] # Absent}

\* _list_gcs_results: every key of the directory.
BigQueryListed == Present

\* Faulty variant of RedshiftListed: the listing is not filtered.
RedshiftListedAll == Present

\* _list_s3_results leaves out keys that end in "manifest", so not _manifest.json.
RedshiftListed == Present \ {WarehouseManifest}

\* _rows_to_shard_results: one result per row of the answer.  A row of fewer than
\* four columns has no file_name, and its result is the URI of the directory: so
\* is the one row, over all files, of a COPY INTO without DETAILED_OUTPUT.
SnowflakeRows == IF perFile THEN produced ELSE {Directory}

List ==
    /\ at = "list" /\ at' = "manifest"
    /\ results' = CASE strategy = "bigquery"  -> BigQueryListed
                     [] strategy = "redshift"  -> RedshiftListed
                     [] strategy = "snowflake" -> SnowflakeRows
    /\ UNCHANGED <<config, tries, store, produced, catalogue, watermark>>

\* Faulty variant of WriteManifestAt: a manifest that is there is kept.
WriteManifestOnce ==
    /\ at = "manifest" /\ at' = "commit"
    /\ IF results = {} \/ catalogue # [k \in {} |-> Absent] THEN UNCHANGED <<catalogue, store>>
       ELSE /\ catalogue' = [k \in results |-> store[k]]
            /\ store' = IF manifestInside THEN [store EXCEPT ![OwnManifest] = tries] ELSE store
    /\ UNCHANGED <<config, tries, produced, results, watermark>>

\* _write_manifest_at.  Without files an earlier manifest stays.  The upload may
\* land without an answer.
WriteManifestAt ==
    /\ at = "manifest"
    /\ IF results = {} THEN at' = "commit" /\ UNCHANGED <<catalogue, store>>
       ELSE /\ at' \in {"commit", "failing"}
            /\ catalogue' = [k \in results |-> store[k]]
            /\ store' = IF manifestInside THEN [store EXCEPT ![OwnManifest] = tries] ELSE store
    /\ UNCHANGED <<config, tries, produced, results, watermark>>

\* _commit_watermark.  A push that fails is logged and forgotten.
CommitWatermark ==
    /\ at = "commit" /\ at' = "finish" /\ watermark' \in {watermark, tries}
    /\ UNCHANGED <<config, tries, store, produced, results, catalogue>>

Next ==
    \/ StartTry \/ EndFailed \/ EndSuccess
    \/ Match \/ ExportData \/ CopyInto \/ RedshiftUnload \/ List \/ WriteManifestAt \/ CommitWatermark

Spec == Init /\ [][Next]_vars

-----------------------------------------------------------------------------
(* Properties.                                                             *)

Versions == 0..MaxTries

\* Every variable keeps its type; the warehouse's manifest is never a result.
TypeOK ==
    /\ strategy \in Strategies /\ manifestInside \in BOOLEAN
    /\ unloadManifest \in BOOLEAN /\ perFile \in BOOLEAN
    /\ at \in Running \cup {"idle", "failed", "success"}
    /\ tries \in Versions /\ watermark \in Versions
    /\ store \in [Keys -> Versions]
    /\ produced \subseteq Files /\ results \subseteq Keys \ {WarehouseManifest}
    /\ DOMAIN catalogue \subseteq Keys
    /\ \A k \in DOMAIN catalogue : catalogue[k] \in Versions

Answered == {"manifest", "commit", "finish", "success"}

\* A listing of the directory finds what the statement of this try wrote, and for
\* Redshift nothing else: none of its files is missing, and none was left by an
\* earlier or failed try.  BigQuery's listing only has the first half, and of
\* Snowflake, whose answer is not a listing, nothing is said.
ResultsAreProduced ==
    at \in Answered =>
        /\ strategy = "bigquery" => produced \subseteq results
        /\ strategy = "redshift" => results = produced

\* While a watermark is in XCom, what the statement of its try wrote is in the
\* store, and if that try has a result at all the manifest lists its results, each
\* in the version that is in the store; its own version it cannot know.  Without
\* a result an older manifest may stay, of which nothing is said.
CatalogueMatchesWatermark ==
    watermark # 0 =>
        /\ watermark = tries /\ \A k \in produced : store[k] = tries
        /\ results # {} =>
              /\ DOMAIN catalogue = results
              /\ \A k \in results \ {OwnManifest} : catalogue[k] = store[k]

-----------------------------------------------------------------------------
(* What the documentation says and the code does not do (see README).      *)

\* unload/base.py:52: unload() returns one ShardResult per file the warehouse
\* produced.
OnlyProduced == at \in Answered => results \subseteq produced
=============================================================================
