---------------------------- MODULE UnloadWindows ----------------------------
(***************************************************************************)
(* Incremental unloads over several scheduled runs: ExportRun with the     *)
(* other branch of execute().  UnloadRun follows the files of one run,     *)
(* this module the rows of all of them.                                    *)
(*                                                                         *)
(* Every date has its directory, and its files are the Shards.  The        *)
(* warehouse, which is external, gives each row of the window to some      *)
(* file, another one at every try.                                         *)
(***************************************************************************)
EXTENDS ExportRun

VARIABLES
    strategy,   \* bigquery, redshift or snowflake
    perFile     \* COPY INTO answers one row per file, not one of three columns

wvars == <<vars, strategy, perFile>>

WInit ==
    /\ Init /\ strategy \in {"bigquery", "redshift", "snowflake"}
    /\ perFile \in IF strategy = "snowflake" THEN BOOLEAN ELSE {TRUE}

\* The rows of the query.
Window(r) == UNION {Selected(r, s) : s \in Shards}

\* What the statement finds: CLEANPATH of Redshift empties the directory, the
\* others write over the files they meet.
Start(r) == IF strategy = "redshift" THEN [s \in Shards |-> {}] ELSE object[r]

\* The directory when the files of W are written, each with its rows.
Written(r, f, W) ==
    [s \in Shards |-> IF s \in W THEN {x \in DOMAIN f : f[x] = s} ELSE Start(r)[s]]

\* The files that the results name.  The listing of BigQuery finds whatever is
\* there; the short answer of Snowflake is one result that names the directory.
Listed(r, files, W) ==
    CASE strategy = "bigquery" -> {s \in Shards : files[s] # {}}
      [] ~perFile              -> {}
      [] OTHER                 -> W

StatementFrame == UNCHANGED <<source, tries, prev, now, manifest, xcom>>

Done(r, files, W) ==
    /\ object' = [object EXCEPT ![r] = files]
    /\ result' = [result EXCEPT ![r] =
            [s \in Shards |-> IF s \in Listed(r, files, W) THEN "uploaded" ELSE "empty"]]

\* Faulty variant of Statement: the error of the statement is logged, and what it
\* has written taken for its result.
StatementSwallowed(r) ==
    /\ at[r] = "shards" /\ result[r] = NoResults /\ UNCHANGED at
    /\ \E f \in [Window(r) -> Shards] :
          LET All == {f[x] : x \in Window(r)} IN
          \E W \in SUBSET All : Done(r, Written(r, f, W), W)
    /\ StatementFrame

\* The statement and the listing of its results, or a failure when some files are
\* written, or none and the directory is as it was.
Statement(r) ==
    /\ at[r] = "shards" /\ result[r] = NoResults
    /\ \E f \in [Window(r) -> Shards] :
          LET All == {f[x] : x \in Window(r)} IN
          \/ Done(r, Written(r, f, All), All) /\ UNCHANGED at
          \/ /\ at' = [at EXCEPT ![r] = "failing"] /\ UNCHANGED result
             /\ \E W \in SUBSET All :
                   object' \in {object, [object EXCEPT ![r] = Written(r, f, W)]}
    /\ StatementFrame

\* _write_manifest_at: without a result there is no new manifest.  That of a short
\* answer lists the directory and no file.
UnloadManifest(r) ==
    /\ at[r] = "shards" /\ result[r] # NoResults
    /\ IF perFile /\ \A s \in Shards : result[r][s] = "empty"
       THEN at' = [at EXCEPT ![r] = "commit"] /\ UNCHANGED manifest
       ELSE /\ manifest' = [manifest EXCEPT ![r] =
                  [s \in Shards |-> IF result[r][s] = "uploaded" THEN object[r][s] ELSE {}]]
            /\ at' \in {[at EXCEPT ![r] = "commit"], [at EXCEPT ![r] = "failing"]}
    /\ UNCHANGED <<source, tries, prev, now, result, object, xcom>>

Unload(r) ==
    PullWatermark(r) \/ ComputeWatermark(r) \/ Statement(r) \/ UnloadManifest(r) \/ CommitWatermark(r)

WNext ==
    /\ UNCHANGED <<options, strategy, perFile>>
    /\ \/ CommitRow
       \/ \E r \in Runs : StartTry(r) \/ EndFailed(r) \/ EndSuccess(r) \/ Unload(r)

WSpec == WInit /\ [][WNext]_wvars

-----------------------------------------------------------------------------
(* Properties.                                                             *)

\* While every date up to r has ended its last try with success, each row up to the
\* watermark of r is in a file that is there and, unless the results name no files,
\* that its manifest lists as it is, although every try spreads the rows anew over
\* files that earlier tries have left or CLEANPATH removes.  A clear of an old date
\* takes that away until it has succeeded again: unlike an upload, a statement does
\* not replace what is there in one step.
RowsBackOnceDone ==
    \A r \in Runs : xcom[r] # NoMark /\ (\A q \in 1..r : at[q] = "success") =>
        \A x \in 1..xcom[r] : \E q \in 1..r, s \in Shards :
            /\ x \in object[q][s]
            /\ perFile => manifest[q] # NoManifest /\ manifest[q][s] = object[q][s]
=============================================================================
