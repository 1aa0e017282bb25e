-------------------------- MODULE UnloadRunProofs --------------------------
(***************************************************************************)
(* Proofs about UnloadRun, for any strategies, number of files and tries,  *)
(* and what UnloadWindowsProofs says of the unloads beside it.             *)
(***************************************************************************)
EXTENDS Unloads, TLAPS

\* The two manifests and the directory are no files of the result.
LEMMA Manifests ==
    /\ OwnManifest \notin Files /\ WarehouseManifest \notin Files /\ Directory \notin Files
    /\ OwnManifest # WarehouseManifest /\ Directory # WarehouseManifest
BY UnloadAssumption DEF OwnManifest, WarehouseManifest, Directory, Files

\* What the statement leaves in the directory until the listing is made: its files
\* are of this try, and after CLEANPATH there is nothing else.  Only Redshift ever
\* leaves a manifest of its own.
Wrote ==
    /\ at \in {"list"} \cup Answered => \A k \in produced : store[k] = tries
    /\ at = "list" /\ strategy = "redshift" =>
          \A k \in Keys \ (produced \cup {WarehouseManifest}) : store[k] = Absent
    /\ strategy # "redshift" =>
          store[WarehouseManifest] = Absent /\ unloadManifest = FALSE

\* The manifest describes the results of this try from the moment it is written,
\* and no watermark is set before.
Described ==
    results # {} =>
        /\ DOMAIN catalogue = results
        /\ \A k \in results \ {OwnManifest} : catalogue[k] = store[k]

WatermarkLast ==
    /\ at # "idle" => tries # 0
    /\ watermark # 0 => at \in {"finish", "success", "failed"} /\ watermark = tries
    /\ watermark # 0 => \A k \in produced : store[k] = tries
    /\ at \in {"commit", "finish"} \/ watermark # 0 => Described

Inv == TypeOK /\ Wrote /\ ResultsAreProduced /\ WatermarkLast

LEMMA InvInit == Init => Inv
<1> SUFFICES ASSUME Init PROVE Inv
  OBVIOUS
<1> USE UnloadAssumption DEF Init, Answered
<1>1. TypeOK
  <2>1. unloadManifest \in BOOLEAN
    OBVIOUS
  <2>2. store \in [Keys -> Versions] /\ tries \in Versions /\ watermark \in Versions
    BY DEF Versions, Absent
  <2>3. DOMAIN catalogue = {}
    OBVIOUS
  <2> QED  BY <2>1, <2>2, <2>3 DEF TypeOK
<1>2. Wrote               BY DEF Wrote, Keys
<1>3. ResultsAreProduced  BY DEF ResultsAreProduced
<1>4. WatermarkLast       BY DEF WatermarkLast
<1> QED  BY <1>1, <1>2, <1>3, <1>4 DEF Inv

\* What a statement does, whatever the directory was before.
LEMMA StatementWrites ==
    ASSUME TypeOK, NEW start \in [Keys -> Versions], NEW extra \in SUBSET Keys,
           Statement(start, extra)
    PROVE  /\ store' \in [Keys -> Versions] /\ produced' \subseteq Files
           /\ at' \in {"list", "failing"}
           /\ \A k \in Keys \ (Files \cup extra) : store'[k] \in {store[k], start[k]}
           /\ at' = "list" =>
                 /\ \A k \in produced' : store'[k] = tries
                 /\ \A k \in Keys \ (produced' \cup extra) : store'[k] = start[k]
<1> DEFINE Written(ks) == [k \in Keys |-> IF k \in ks THEN tries ELSE start[k]]
<1>1. PICK n \in 0..MaxFiles :
        \/ at' = "list" /\ produced' = 1..n /\ store' = Written(1..n \cup extra)
        \/ at' = "failing" /\ store' \in {store, Written(1..n)} /\ UNCHANGED produced
  BY Zenon DEF Statement
<1>2. 1..n \subseteq Files /\ Files \subseteq Keys
  BY <1>1, UnloadAssumption DEF Files, Keys
<1>3. \A ks : Written(ks) \in [Keys -> Versions]
  BY DEF TypeOK
<1> QED  BY <1>1, <1>2, <1>3 DEF TypeOK

LEMMA InvNext == Inv /\ [Next]_vars => Inv'
<1> SUFFICES ASSUME Inv, [Next]_vars PROVE Inv'
  OBVIOUS
<1> USE DEF Inv, config
<1>1. CASE StartTry
  BY <1>1, UnloadAssumption DEF StartTry, TypeOK, Running, Versions, Wrote, Answered,
     ResultsAreProduced, WatermarkLast, Described
<1>2. CASE EndFailed
  BY <1>2 DEF EndFailed, TypeOK, Running, Wrote, Answered, ResultsAreProduced,
     WatermarkLast, Described
<1>3. CASE EndSuccess
  BY <1>3 DEF EndSuccess, TypeOK, Running, Wrote, Answered, ResultsAreProduced,
     WatermarkLast, Described
<1>4. CASE Match
  BY <1>4 DEF Match, TypeOK, Running, Wrote, Answered, ResultsAreProduced,
     WatermarkLast, Described
<1>5. CASE ExportData \/ CopyInto \/ RedshiftUnload
  <2> DEFINE empty == [k \in Keys |-> Absent]
  <2>1. PICK start \in {store, empty} :
            /\ Statement(start, ExtraFiles) \/ Statement(start, {})
            /\ strategy = "redshift" => start = empty
            /\ strategy # "redshift" => Statement(start, {})
    BY <1>5 DEF ExportData, CopyInto, RedshiftUnload
  <2>2. start \in [Keys -> Versions]
    BY UnloadAssumption DEF TypeOK, Versions, Absent
  <2>3. ExtraFiles \in SUBSET {WarehouseManifest} /\ WarehouseManifest \in Keys
    BY DEF ExtraFiles, Keys
  <2>4. /\ store' \in [Keys -> Versions] /\ produced' \subseteq Files
        /\ at' \in {"list", "failing"}
        /\ at' = "list" =>
              /\ \A k \in produced' : store'[k] = tries
              /\ \A k \in Keys \ (produced' \cup {WarehouseManifest}) : store'[k] = start[k]
        /\ strategy # "redshift" =>
              store'[WarehouseManifest] \in {store[WarehouseManifest], start[WarehouseManifest]}
    BY <2>1, <2>2, <2>3, StatementWrites, Manifests
  <2>5. at = "statement" /\ UNCHANGED <<config, tries, results, catalogue, watermark>>
    BY <2>1, Zenon DEF Statement
  <2>6. TypeOK'              BY <2>4, <2>5 DEF TypeOK, Running
  <2>7. Wrote'               BY <2>1, <2>3, <2>4, <2>5 DEF Wrote, Answered
  <2>8. ResultsAreProduced'  BY <2>4, <2>5 DEF ResultsAreProduced, Answered
  <2>9. WatermarkLast'       BY <2>4, <2>5 DEF WatermarkLast
  <2> QED  BY <2>6, <2>7, <2>8, <2>9
<1>6. CASE List
  <2>1. /\ at = "list" /\ at' = "manifest" /\ tries # 0 /\ watermark = 0
        /\ UNCHANGED <<config, tries, store, produced, catalogue, watermark>>
    BY <1>6 DEF List, WatermarkLast
  <2>2. produced \subseteq Present /\ produced \subseteq Files
    BY <2>1 DEF Present, Absent, Wrote, TypeOK, Keys
  <2> DEFINE Good == /\ results' \subseteq Keys \ {WarehouseManifest}
                     /\ strategy = "bigquery" => produced \subseteq results'
                     /\ strategy = "redshift" => results' = produced
  <2>3. ASSUME strategy = "bigquery" PROVE Good
    <3>1. results' = Present /\ WarehouseManifest \notin Present
      BY <1>6, <2>3 DEF List, BigQueryListed, Present, Wrote
    <3> QED  BY <2>2, <3>1, <2>3 DEF Present, Keys
  <2>4. ASSUME strategy = "redshift" PROVE Good
    <3>1. results' = Present \ {WarehouseManifest}
      BY <1>6, <2>4 DEF List, RedshiftListed
    <3>2. Present \ {WarehouseManifest} \subseteq produced
      BY <2>1, <2>4 DEF Present, Wrote
    <3>3. produced \subseteq Present \ {WarehouseManifest}  BY <2>2, Manifests
    <3> QED  BY <2>4, <3>1, <3>2, <3>3 DEF Present
  <2>5. ASSUME strategy = "snowflake" PROVE Good
    <3>1. results' \in {produced, {Directory}}
      BY <1>6, <2>5 DEF List, SnowflakeRows
    <3> QED  BY <2>2, <2>5, <3>1, Manifests DEF Keys
  <2>6. Good
    BY <2>3, <2>4, <2>5, UnloadAssumption DEF TypeOK
  <2> QED  BY <2>1, <2>6 DEF TypeOK, Running, Wrote, Answered, ResultsAreProduced,
              WatermarkLast
<1>7. CASE WriteManifestAt
  BY <1>7, Manifests DEF WriteManifestAt, TypeOK, Running, Versions, Keys, Wrote, Answered,
     ResultsAreProduced, WatermarkLast, Described
<1>8. CASE CommitWatermark
  BY <1>8 DEF CommitWatermark, TypeOK, Running, Wrote, Answered, ResultsAreProduced,
     WatermarkLast, Described
<1>9. CASE UNCHANGED vars
  BY <1>9 DEF vars, TypeOK, Wrote, Answered, ResultsAreProduced, WatermarkLast, Described
<1> QED  BY <1>1, <1>2, <1>3, <1>4, <1>5, <1>6, <1>7, <1>8, <1>9 DEF Next

\* Type correctness.
THEOREM TypeCorrect == Spec => []TypeOK
<1>1. Inv => TypeOK
  BY DEF Inv
<1> QED  BY InvInit, InvNext, <1>1, PTL DEF Spec

\* No file of the statement is missing from a listing of the directory, and after
\* CLEANPATH (Redshift) none of an earlier try is in it (_list_gcs_results,
\* _list_s3_results).
THEOREM ResultsAreTheStatements == Spec => []ResultsAreProduced
<1>1. Inv => ResultsAreProduced
  BY DEF Inv
<1> QED  BY InvInit, InvNext, <1>1, PTL DEF Spec

\* While a watermark is in XCom, the files of its try are in the store, and if the
\* try has a result the manifest lists its results as they are in the store
\* (_write_manifest_at before _commit_watermark).  A try without a result has no
\* manifest of its own, and nothing is said of the older one that may be there.
THEOREM WatermarkHasManifest == Spec => []CatalogueMatchesWatermark
<1>1. Inv => CatalogueMatchesWatermark
  BY DEF Inv, WatermarkLast, Described, CatalogueMatchesWatermark
<1> QED  BY InvInit, InvNext, <1>1, PTL DEF Spec

-----------------------------------------------------------------------------
(* The rows of incremental unloads.                                        *)

WindowsProofs == INSTANCE UnloadWindowsProofs WITH
    MaxTries <- WindowTries,
    options <- w_options, source <- w_source, at <- w_at, tries <- w_tries,
    prev <- w_prev, now <- w_now, result <- w_result, object <- w_object,
    manifest <- w_manifest, xcom <- w_xcom, strategy <- w_strategy,
    perFile <- w_perFile

\* While every date up to r has ended its last try with success, each row up to the
\* watermark of r is in a file, which its manifest lists unless the results name no
\* files, for any number of dates, files, rows and tries, and whichever strategy
\* writes the files (_run_unload): the property of the model is that of the instance
\* it is proved for.
THEOREM UnloadedRowsAreBack == WindowsProofs!WSpec => []RowsBackOnceDone
<1>1. WindowsProofs!WSpec => []WindowsProofs!RowsBackOnceDone
  BY WindowsProofs!RowsAreBack, WindowsAssumption
<1>2. WindowsProofs!RowsBackOnceDone => RowsBackOnceDone
  BY DEF RowsBackOnceDone, WindowsProofs!RowsBackOnceDone, Windows!RowsBackOnceDone,
         WindowsProofs!Runs, Windows!Runs, WindowsProofs!Shards, Windows!Shards,
         WindowsProofs!NoMark, Windows!NoMark, WindowsProofs!NoManifest, Windows!NoManifest
<1> QED BY <1>1, <1>2, PTL
=============================================================================
