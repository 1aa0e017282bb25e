----------------------------- MODULE ExportRun -----------------------------
(***************************************************************************)
(* Incremental exports over several scheduled runs: what                   *)
(* `StreamingExportOperator.execute` (operator.py) does to the object      *)
(* store, the manifest and the watermark, when its tries fail, are killed, *)
(* retried and cleared in any order.                                       *)
(*                                                                         *)
(* Run r is the run of the r-th logical date; its paths are rendered from  *)
(* the date, so that every try of it writes the same objects.  Airflow is  *)
(* external: it starts the tries, deletes the XCom of a task instance when *)
(* a try of it starts, and answers a pull with include_prior_dates by the  *)
(* value of the latest date that has one.                                  *)
(*                                                                         *)
(* A row is named by its updated_at.  Rows are committed in that order,    *)
(* never changed and never deleted; the query of a shard is the documented *)
(* one: updated_at > watermark_prev AND updated_at <= watermark_now.       *)
(***************************************************************************)
EXTENDS Integers, FiniteSets

CONSTANTS
    NumRuns,        \* scheduled runs
    NumShards,      \* shards of each run
    MaxRows,        \* rows that the source table can get (bounds the model)
    MaxTries,       \* tries of one run, retries and clears together
    MaxActive,      \* runs that Airflow lets run at the same time
    Interval,       \* with a template: the watermark of run r is r * Interval
    Options         \* combinations of options to choose from

ASSUME RunAssumption ==
    /\ NumRuns \in Nat \ {0} /\ NumShards \in Nat \ {0}
    /\ MaxRows \in Nat /\ MaxTries \in Nat \ {0} /\ MaxActive \in Nat \ {0}
    /\ Interval \in Nat \ {0}
    /\ Options \subseteq SUBSET {"watermark_query", "skip_if_exists"}

Runs == 1..NumRuns
Shards == 1..NumShards
ShardOf(x) == 1 + (x % NumShards)

NoMark == -1            \* no watermark in XCom
DefaultValue == 0       \* default_value: before every row

VARIABLES
    options,    \* the options that are set
    source,     \* rows 1..source are in the table; MAX(updated_at)
    at,         \* what the current try of each run does next
    tries,      \* tries of each run so far
    prev,       \* watermark_prev of the current try
    now,        \* watermark_now of the current try
    result,     \* what each shard of the current try has answered
    object,     \* the rows in the object of a run and shard; {}: no object
    manifest,   \* the rows of each file that a run's manifest lists
    xcom        \* the watermark in XCom of each run

vars == <<options, source, at, tries, prev, now, result, object, manifest, xcom>>

\* Without watermark_query there is a watermark_now_template.
UseQuery == "watermark_query" \in options
SkipIfExists == "skip_if_exists" \in options

NoManifest == [s \in {} |-> {}]
NoResults == [s \in Shards |-> "none"]

\* Rows that shard s of the current try of run r selects.
Selected(r, s) == {x \in (prev[r] + 1)..now[r] : x <= source /\ ShardOf(x) = s}

Active == {"prepare", "query", "shards", "commit", "finish", "failing"}

Init ==
    /\ options \in Options
    /\ source = 0
    /\ at = [r \in Runs |-> "idle"] /\ tries = [r \in Runs |-> 0]
    /\ prev = [r \in Runs |-> DefaultValue] /\ now = [r \in Runs |-> DefaultValue]
    /\ result = [r \in Runs |-> NoResults]
    /\ object = [r \in Runs |-> [s \in Shards |-> {}]]
    /\ manifest = [r \in Runs |-> NoManifest]
    /\ xcom = [r \in Runs |-> NoMark]

-----------------------------------------------------------------------------
(* Airflow and the source database.                                        *)

CommitRow ==
    /\ source < MaxRows /\ source' = source + 1
    /\ UNCHANGED <<at, tries, prev, now, result, object, manifest, xcom>>

\* A try starts: the first one, a retry, or a clear of a finished run.  The
\* dates are scheduled in order, each when its interval is over.
StartTry(r) ==
    /\ at[r] \in {"idle", "failed", "success"} /\ tries[r] < MaxTries
    /\ Cardinality({q \in Runs : at[q] \in Active}) < MaxActive
    /\ \A q \in 1..(r - 1) : tries[q] > 0
    /\ ~UseQuery => r * Interval <= source
    /\ at' = [at EXCEPT ![r] = "prepare"] /\ tries' = [tries EXCEPT ![r] = @ + 1]
    /\ xcom' = [xcom EXCEPT ![r] = NoMark]
    /\ UNCHANGED <<source, prev, now, result, object, manifest>>

\* The try is over and its local variables are gone.
EndTry(r, state) ==
    /\ at' = [at EXCEPT ![r] = state]
    /\ prev' = [prev EXCEPT ![r] = DefaultValue]
    /\ now' = [now EXCEPT ![r] = DefaultValue]
    /\ result' = [result EXCEPT ![r] = NoResults]
    /\ UNCHANGED <<source, tries, object, manifest, xcom>>

\* A step of the try raises, or the worker is killed.  A shard that fails lets
\* its siblings end first (ShardPool): they take their steps before this one.
EndFailed(r) == at[r] \in Active /\ EndTry(r, "failed")

\* execute() has returned and Airflow records the success.
EndSuccess(r) == at[r] = "finish" /\ EndTry(r, "success")

-----------------------------------------------------------------------------
(* The operator: one try of run r.                                         *)

\* The latest date up to r with a watermark.
Latest(r) ==
    {q \in 1..r : xcom[q] # NoMark /\ \A p \in (q + 1)..r : xcom[p] = NoMark}

\* Health checks, then the pull of the previous watermark.  Without one, and
\* also when the pull fails, it is the default.
PullWatermark(r) ==
    /\ at[r] = "prepare"
    /\ at' = [at EXCEPT ![r] = "query"]
    /\ \/ \E q \in Latest(r) : prev' = [prev EXCEPT ![r] = xcom[q]]
       \/ prev' = [prev EXCEPT ![r] = DefaultValue]
    /\ UNCHANGED <<source, tries, now, result, object, manifest, xcom>>

\* Faulty variant of ComputeWatermark: an empty MAX does not fall back.
ComputeWatermarkBare(r) ==
    /\ at[r] = "query"
    /\ at' = [at EXCEPT ![r] = "shards"]
    /\ now' = [now EXCEPT ![r] = IF ~UseQuery THEN r * Interval
                                 ELSE IF source = 0 THEN NoMark ELSE source]
    /\ UNCHANGED <<source, tries, prev, result, object, manifest, xcom>>

\* watermark_query or the template.  An empty table has no MAX.
ComputeWatermark(r) ==
    /\ at[r] = "query"
    /\ at' = [at EXCEPT ![r] = "shards"]
    /\ now' = [now EXCEPT ![r] = IF ~UseQuery THEN r * Interval
                                 ELSE IF source = 0 THEN prev[r] ELSE source]
    /\ UNCHANGED <<source, tries, prev, result, object, manifest, xcom>>

ShardFrame == UNCHANGED <<source, at, tries, prev, now, manifest, xcom>>

\* The object is there already.
SkipShard(r, s) ==
    /\ at[r] = "shards" /\ result[r][s] = "none"
    /\ SkipIfExists /\ object[r][s] # {}
    /\ result' = [result EXCEPT ![r][s] = "skipped"]
    /\ UNCHANGED object /\ ShardFrame

\* The query of the shard returns no row: nothing is uploaded.
EmptyShard(r, s) ==
    /\ at[r] = "shards" /\ result[r][s] = "none"
    /\ Selected(r, s) = {}
    /\ result' = [result EXCEPT ![r][s] = "empty"]
    /\ UNCHANGED object /\ ShardFrame

\* The object is replaced by the rows of this try.  The upload may land
\* without an answer; it is then retried or the try fails.  The probe of
\* skip_if_exists fails open, so this may happen to an object that is there.
UploadShard(r, s) ==
    /\ at[r] = "shards" /\ result[r][s] = "none"
    /\ Selected(r, s) # {}
    /\ object' = [object EXCEPT ![r][s] = Selected(r, s)]
    /\ \/ result' = [result EXCEPT ![r][s] = "uploaded"]
       \/ UNCHANGED result
    /\ ShardFrame

\* build_manifest lists a file for every shard that has one, whether it was uploaded
\* or skipped; of a skipped one with its URI and no number of rows.
Listing(r) ==
    [s \in Shards |-> IF result[r][s] \in {"uploaded", "skipped"} THEN object[r][s] ELSE {}]

\* Faulty variant of WriteManifest: it does not wait for every shard.
WriteManifestEarly(r) ==
    /\ at[r] = "shards"
    /\ manifest' = [manifest EXCEPT ![r] = Listing(r)]
    /\ at' = [at EXCEPT ![r] = "commit"]
    /\ UNCHANGED <<source, tries, prev, now, result, object, xcom>>

\* Faulty variant of WriteManifest: its failure is logged and forgotten.
WriteManifestSwallowed(r) ==
    /\ at[r] = "shards" /\ \A s \in Shards : result[r][s] # "none"
    /\ manifest' \in {manifest, [manifest EXCEPT ![r] = Listing(r)]}
    /\ at' = [at EXCEPT ![r] = "commit"]
    /\ UNCHANGED <<source, tries, prev, now, result, object, xcom>>

\* _write_manifest, after every shard has answered.  Its upload may land without
\* an answer too.
WriteManifest(r) ==
    /\ at[r] = "shards" /\ \A s \in Shards : result[r][s] # "none"
    /\ manifest' = [manifest EXCEPT ![r] = Listing(r)]
    /\ \/ at' = [at EXCEPT ![r] = "commit"]
       \/ at' = [at EXCEPT ![r] = "failing"]
    /\ UNCHANGED <<source, tries, prev, now, result, object, xcom>>

\* Faulty variant of CommitWatermark: the MAX is taken after the export.
CommitWatermarkLate(r) ==
    /\ at[r] = "commit"
    /\ at' = [at EXCEPT ![r] = "finish"]
    /\ xcom' = [xcom EXCEPT ![r] = source]
    /\ UNCHANGED <<source, tries, prev, now, result, object, manifest>>

\* _commit_watermark.  A push that fails is logged and forgotten.
CommitWatermark(r) ==
    /\ at[r] = "commit"
    /\ at' = [at EXCEPT ![r] = "finish"]
    /\ \/ xcom' = [xcom EXCEPT ![r] = now[r]]
       \/ UNCHANGED xcom
    /\ UNCHANGED <<source, tries, prev, now, result, object, manifest>>

Try(r) ==
    \/ PullWatermark(r) \/ ComputeWatermark(r)
    \/ \E s \in Shards : SkipShard(r, s) \/ EmptyShard(r, s) \/ UploadShard(r, s)
    \/ WriteManifest(r) \/ CommitWatermark(r)

Next ==
    /\ UNCHANGED options
    /\ \/ CommitRow
       \/ \E r \in Runs : StartTry(r) \/ EndFailed(r) \/ EndSuccess(r) \/ Try(r)

Spec == Init /\ [][Next]_vars

-----------------------------------------------------------------------------
(* Properties.                                                             *)

Rows == 1..MaxRows
Marks == Nat \cup {NoMark}

\* Every variable keeps its type.
TypeOK ==
    /\ options \in Options
    /\ source \in 0..MaxRows
    /\ at \in [Runs -> Active \cup {"idle", "failed", "success"}]
    /\ tries \in [Runs -> 0..MaxTries]
    /\ prev \in [Runs -> Nat] /\ now \in [Runs -> Nat]
    /\ result \in [Runs -> [Shards -> {"none", "skipped", "empty", "uploaded"}]]
    /\ object \in [Runs -> [Shards -> SUBSET Rows]]
    /\ manifest \in [Runs -> [Shards -> SUBSET Rows] \cup {NoManifest}]
    /\ xcom \in [Runs -> Marks]

\* The rows up to w of shard s are in the objects of the runs up to q.
ShardCovered(q, s, w) ==
    \A x \in 1..w : ShardOf(x) = s => \E r \in 1..q : x \in object[r][s]

Covered(q, w) == \A s \in Shards : ShardCovered(q, s, w)

\* No row is lost: when a run has a watermark in XCom, every row up to it is in
\* the store, in an object of that run or of an earlier date.  The next run
\* starts from there and will never look at those rows again.  It holds for any
\* order of failures, kills, retries and clears of overlapping runs; with
\* skip_if_exists only if the watermark is a template.
NothingLost == \A r \in Runs : xcom[r] # NoMark => Covered(r, xcom[r])

\* When the watermark is about to be pushed, the manifest lists every row of the
\* window, or for a shard that was skipped those of its object; and what a finished
\* run lists is what is in the object, whatever other tries have left there.
ManifestSound ==
    \A r \in Runs : at[r] \in {"commit", "finish", "success"} =>
        /\ manifest[r] # NoManifest
        /\ \A s \in Shards :
              IF at[r] = "success" THEN manifest[r][s] \in {{}, object[r][s]}
              ELSE manifest[r][s] = IF result[r][s] = "skipped" THEN object[r][s]
                                                                ELSE Selected(r, s)

\* The catalogue is never behind the watermark: every row up to a watermark in
\* XCom is in a file that some manifest lists.  As NothingLost, it holds with
\* skip_if_exists only if the watermark is a template.
CatalogueCovers ==
    \A r \in Runs : xcom[r] # NoMark =>
        \A x \in 1..xcom[r] : \E q \in 1..r :
            manifest[q] # NoManifest /\ x \in manifest[q][ShardOf(x)]
=============================================================================
