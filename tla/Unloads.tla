------------------------------ MODULE Unloads ------------------------------
(***************************************************************************)
(* Native unloads: the files of one (UnloadRun) and the rows of several    *)
(* incremental ones (UnloadWindows), side by side.                         *)
(***************************************************************************)
EXTENDS UnloadRun

CONSTANTS
    NumRuns, NumShards, MaxRows, WindowTries, MaxActive, Interval, Options

ASSUME WindowsAssumption ==
    /\ NumRuns \in Nat \ {0} /\ NumShards \in Nat \ {0}
    /\ MaxRows \in Nat /\ WindowTries \in Nat \ {0} /\ MaxActive \in Nat \ {0}
    /\ Interval \in Nat \ {0}
    /\ Options \subseteq SUBSET {"watermark_query", "skip_if_exists"}

VARIABLES
    w_options, w_source, w_at, w_tries, w_prev, w_now, w_result, w_object, w_manifest, w_xcom,
    w_strategy, w_perFile

Windows == INSTANCE UnloadWindows WITH
    MaxTries <- WindowTries,
    options <- w_options, source <- w_source, at <- w_at, tries <- w_tries,
    prev <- w_prev, now <- w_now, result <- w_result, object <- w_object,
    manifest <- w_manifest, xcom <- w_xcom, strategy <- w_strategy,
    perFile <- w_perFile

\* No row is missing from files and, where they name files, manifests once every date has succeeded
\* (_run_unload with an IncrementalConfig).
RowsBackOnceDone == Windows!RowsBackOnceDone
=============================================================================
