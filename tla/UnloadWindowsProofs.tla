------------------------- MODULE UnloadWindowsProofs -------------------------
(***************************************************************************)
(* Proofs about UnloadWindows, for any number of runs, files, rows and     *)
(* tries.                                                                  *)
(*                                                                         *)
(* A statement does not replace the files of an earlier try in one step,   *)
(* so that a row may be in no file while a run is tried again.  What holds *)
(* in between is RowsKept: such a row is with a run whose window reaches   *)
(* it, now or when it is tried again.  When all those runs have succeeded  *)
(* each row is in a file.                                                  *)
(***************************************************************************)
EXTENDS UnloadWindows, ExportRunProofs

\* The steps of UnloadWindows.
LEMMA WSteps ==
    ASSUME [WNext]_wvars
    PROVE  /\ options' = options /\ perFile' = perFile
           /\ \/ UNCHANGED vars \/ Common
              \/ \E r \in Runs : Statement(r) \/ UnloadManifest(r)
BY DEF WNext, Unload, wvars, vars, Common, CommonOf

-----------------------------------------------------------------------------
(* What a statement does.                                                  *)

\* The query of a run gives the rows of its window that exist.
LEMMA WindowRows ==
    ASSUME Base, NEW r \in Runs
    PROVE  /\ Window(r) \in SUBSET Rows
           /\ \A x \in (prev[r] + 1)..now[r] : x \in Window(r)
           /\ \A x \in Window(r) : x <= now[r] /\ x <= source
<1>1. /\ TypeOK /\ prev[r] \in Nat /\ now[r] \in Nat /\ source \in Nat /\ now[r] <= source
  BY BaseTypes DEF Existing
<1>2. Window(r) \in SUBSET Rows BY <1>1, SelectedRows DEF Window
<1>3. ASSUME NEW x \in (prev[r] + 1)..now[r] PROVE x \in Window(r)
  <2>1. x \in Nat /\ x <= source BY <1>1
  <2>2. ShardOf(x) \in Shards BY <2>1, ShardOfRow
  <2>3. x \in Selected(r, ShardOf(x)) BY <2>1 DEF Selected
  <2> QED BY <2>2, <2>3 DEF Window
<1>4. \A x \in Window(r) : x <= now[r] /\ x <= source BY <1>1 DEF Window, Selected
<1> QED BY <1>2, <1>3, <1>4

\* The files of a statement have the rows of its window or what was there.
LEMMA WrittenFiles ==
    ASSUME Base, NEW r \in Runs, NEW f \in [Window(r) -> Shards], NEW W \in SUBSET Shards
    PROVE  /\ Written(r, f, W) \in [Shards -> SUBSET Rows]
           /\ \A s \in Shards : \A x \in Written(r, f, W)[s] : x \in Window(r) \/ x \in object[r][s]
<1>1. object[r] \in [Shards -> SUBSET Rows] /\ Window(r) \in SUBSET Rows
  BY BaseTypes, WindowRows
<1>2. Start(r) \in [Shards -> SUBSET Rows] BY <1>1 DEF Start
<1>3. \A s \in Shards : Start(r)[s] \in {{}, object[r][s]} BY <1>1 DEF Start
<1> QED BY <1>1, <1>2, <1>3 DEF Written

\* The outcomes of a statement: it finds every row of its window in a file, and lists
\* the file if its results name files, or it fails.
Outcome(r, files, answers) ==
    \/ /\ object' = [object EXCEPT ![r] = files] /\ at' = at
       /\ result' = [result EXCEPT ![r] = answers]
       /\ \A x \in Window(r) : \E s \in Shards :
             x \in files[s] /\ (perFile => answers[s] = "uploaded")
    \/ /\ object' \in {object, [object EXCEPT ![r] = files]}
       /\ at' = [at EXCEPT ![r] = "failing"] /\ result' = result

LEMMA StatementOutcome ==
    ASSUME Base, NEW r \in Runs, Statement(r)
    PROVE  \E files \in [Shards -> SUBSET Rows], answers \in [Shards -> {"uploaded", "empty"}] :
              /\ Outcome(r, files, answers)
              /\ \A s \in Shards : \A x \in files[s] : x \in Window(r) \/ x \in object[r][s]
<1>1. PICK f \in [Window(r) -> Shards] :
         LET All == {f[x] : x \in Window(r)} IN
         \/ Done(r, Written(r, f, All), All) /\ UNCHANGED at
         \/ /\ at' = [at EXCEPT ![r] = "failing"] /\ UNCHANGED result
            /\ \E W \in SUBSET All :
                  object' \in {object, [object EXCEPT ![r] = Written(r, f, W)]}
  BY DEF Statement
<1> DEFINE All == {f[x] : x \in Window(r)}
<1>2. All \in SUBSET Shards OBVIOUS
<1>3. CASE Done(r, Written(r, f, All), All) /\ UNCHANGED at
  <2> DEFINE files == Written(r, f, All)
             answers == [s \in Shards |->
                            IF s \in Listed(r, files, All) THEN "uploaded" ELSE "empty"]
  <2>1. \A x \in Window(r) : f[x] \in Shards /\ x \in files[f[x]] BY DEF Written
  <2>2. \A x \in Window(r) : perFile => answers[f[x]] = "uploaded"
    <3> SUFFICES ASSUME perFile, NEW x \in Window(r) PROVE f[x] \in Listed(r, files, All)
      BY <2>1
    <3> QED BY <2>1 DEF Listed
  <2>3. Outcome(r, files, answers) BY <1>3, <2>1, <2>2 DEF Outcome, Done
  <2>4. answers \in [Shards -> {"uploaded", "empty"}] OBVIOUS
  <2> HIDE DEF answers
  <2> QED BY <1>2, <2>3, <2>4, WrittenFiles
<1>4. ASSUME at' = [at EXCEPT ![r] = "failing"], UNCHANGED result, NEW W \in SUBSET All,
             object' \in {object, [object EXCEPT ![r] = Written(r, f, W)]}
      PROVE  \E files \in [Shards -> SUBSET Rows], answers \in [Shards -> {"uploaded", "empty"}] :
                /\ Outcome(r, files, answers)
                /\ \A s \in Shards : \A x \in files[s] : x \in Window(r) \/ x \in object[r][s]
  <2>1. W \in SUBSET Shards BY <1>2
  <2>2. Outcome(r, Written(r, f, W), [s \in Shards |-> "empty"]) BY <1>4 DEF Outcome
  <2>3. [s \in Shards |-> "empty"] \in [Shards -> {"uploaded", "empty"}] OBVIOUS
  <2> QED BY <2>1, <2>2, <2>3, WrittenFiles
<1> QED BY <1>1, <1>3, <1>4

-----------------------------------------------------------------------------
(* Base holds for unloads too.                                             *)

LEMMA BaseStatement ==
    ASSUME Base, options' = options, NEW r \in Runs, Statement(r)
    PROVE  Base'
<1>0. /\ TypeOK /\ Existing /\ WindowEnd /\ Status /\ source \in Nat
      /\ now \in [Runs -> Nat] /\ result \in [Runs -> [Shards -> Answers]]
      /\ object \in [Runs -> [Shards -> SUBSET Rows]] /\ at \in [Runs -> States]
      /\ (UseQuery' <=> UseQuery)
  BY BaseTypes, OptionsKept
<1>1. PICK files \in [Shards -> SUBSET Rows], answers \in [Shards -> {"uploaded", "empty"}] :
         /\ Outcome(r, files, answers)
         /\ \A s \in Shards : \A x \in files[s] : x \in Window(r) \/ x \in object[r][s]
  BY StatementOutcome
<1>2. at[r] = "shards" /\ UNCHANGED <<source, tries, prev, now, manifest, xcom>>
  BY DEF Statement, StatementFrame
<1>3. /\ at'[r] \in {"shards", "failing"} /\ at' = [at EXCEPT ![r] = at'[r]]
      /\ object' \in {object, [object EXCEPT ![r] = files]}
      /\ result' \in {result, [result EXCEPT ![r] = answers]}
  BY <1>0, <1>1, <1>2 DEF Outcome
<1>4. TypeOK'
  <2>1. at' \in [Runs -> States] BY <1>0, <1>3 DEF States, Active
  <2>2. result' \in [Runs -> [Shards -> Answers]]
    <3>1. answers \in [Shards -> Answers] BY DEF Answers
    <3> QED BY <1>0, <1>3, <3>1
  <2>3. object' \in [Runs -> [Shards -> SUBSET Rows]] BY <1>0, <1>3
  <2> QED BY <1>0, <1>2, <2>1, <2>2, <2>3 DEF TypeOK, States, Answers
<1>5. \A p \in Runs, s \in Shards : \A x \in object'[p][s] :
         x \in object[p][s] \/ (p = r /\ x <= source /\ x <= now[r])
  BY <1>0, <1>1, <1>3, WindowRows
<1>6. Existing' BY <1>0, <1>2, <1>5 DEF Existing
<1>7. WindowEnd'
  <2>1. \A p \in Runs : p # r => at'[p] = at[p] BY <1>0, <1>3
  <2>2. ~UseQuery => now[r] = r * Interval BY <1>0, <1>2 DEF WindowEnd
  <2> QED BY <1>0, <1>2, <1>3, <1>5, <2>1, <2>2 DEF WindowEnd, Active
<1>8. Status'
  <2>1. \A p \in Runs : p # r => at'[p] = at[p] /\ result'[p] = result[p] BY <1>0, <1>3
  <2> QED BY <1>0, <1>2, <1>3, <2>1 DEF Status
<1> QED BY <1>4, <1>6, <1>7, <1>8 DEF Base

\* Before the manifest is written, a statement has answered for every file.
Answered == \A r \in Runs : at[r] = "shards" =>
    result[r] = NoResults \/ result[r] \in [Shards -> {"uploaded", "empty"}]

LEMMA BaseUnloadManifest ==
    ASSUME Base, Answered, options' = options, NEW r \in Runs, UnloadManifest(r)
    PROVE  Base'
<1>0. /\ TypeOK /\ Existing /\ WindowEnd /\ Status /\ at \in [Runs -> States]
      /\ object \in [Runs -> [Shards -> SUBSET Rows]]
      /\ (UseQuery' <=> UseQuery)
  BY BaseTypes, OptionsKept
<1>1. /\ at[r] = "shards" /\ result[r] # NoResults
      /\ UNCHANGED <<source, tries, prev, now, result, object, xcom>>
      /\ at' \in {[at EXCEPT ![r] = "commit"], [at EXCEPT ![r] = "failing"]}
  BY DEF UnloadManifest
<1>2. TypeOK'
  <2>1. at' \in [Runs -> States] BY <1>0, <1>1 DEF States, Active
  <2>2. [s \in Shards |-> IF result[r][s] = "uploaded" THEN object[r][s] ELSE {}]
            \in [Shards -> SUBSET Rows]
    BY <1>0
  <2>3. manifest' \in [Runs -> [Shards -> SUBSET Rows] \cup {NoManifest}]
    BY <2>2, <1>0 DEF UnloadManifest, TypeOK
  <2> QED BY <1>0, <1>1, <2>1, <2>3 DEF TypeOK, States
<1>3. Existing' BY <1>0, <1>1 DEF Existing
<1>4. WindowEnd' BY <1>0, <1>1 DEF WindowEnd, Active
<1>5. Status'
  <2>1. \A s \in Shards : result[r][s] # "none" BY <1>1 DEF Answered
  <2> QED BY <1>0, <1>1, <2>1 DEF Status
<1> QED BY <1>2, <1>3, <1>4, <1>5 DEF Base

LEMMA AnsweredStep == Base /\ Answered /\ [WNext]_wvars => Answered'
<1> SUFFICES ASSUME Base, Answered, [WNext]_wvars PROVE Answered' OBVIOUS
<1>0. /\ at \in [Runs -> States] /\ result \in [Runs -> [Shards -> Answers]] /\ Status
  BY BaseTypes
<1>1. CASE UNCHANGED vars BY <1>1 DEF vars, Answered
<1>2. CASE Common
  <2>1. CASE CommitRow BY <2>1 DEF CommitRow, Answered
  <2>2. ASSUME NEW r \in Runs, CommonOf(r) PROVE Answered'
    BY <1>0, <2>2 DEF CommonOf, StartTry, EndFailed, EndSuccess, EndTry, PullWatermark,
       ComputeWatermark, CommitWatermark, Answered, Status
  <2> QED BY <1>2, <2>1, <2>2 DEF Common
<1>3. ASSUME NEW r \in Runs, Statement(r) PROVE Answered'
  <2>1. PICK files \in [Shards -> SUBSET Rows], answers \in [Shards -> {"uploaded", "empty"}] :
           Outcome(r, files, answers)
    BY <1>3, StatementOutcome
  <2> QED BY <1>0, <2>1 DEF Outcome, Answered
<1>4. ASSUME NEW r \in Runs, UnloadManifest(r) PROVE Answered'
  BY <1>0, <1>4 DEF UnloadManifest, Answered
<1> QED BY <1>1, <1>2, <1>3, <1>4, WSteps

\* Base and Answered hold in every reachable state.
WBase == Base /\ Answered

LEMMA WBaseStep == WBase /\ [WNext]_wvars => WBase'
<1> SUFFICES ASSUME WBase, [WNext]_wvars PROVE WBase' OBVIOUS
<1>1. Base' BY WSteps, BaseCommon, BaseStatement, BaseUnloadManifest, BaseStutter DEF WBase
<1> QED BY <1>1, AnsweredStep DEF WBase

LEMMA WBaseHolds == WSpec => []WBase
<1>1. WInit => WBase BY BaseInit DEF WInit, WBase, Answered, Init
<1> QED BY <1>1, WBaseStep, PTL DEF WSpec

-----------------------------------------------------------------------------
(* No row goes missing.                                                    *)

\* Run p has row x in a file that its manifest, if it lists files, lists as it is.
Found(p, x) ==
    \E s \in Shards :
        /\ x \in object[p][s]
        /\ perFile => manifest[p] # NoManifest /\ manifest[p][s] = object[p][s]

\* Row x is with run p: its last try has succeeded and listed it, the window of its
\* running try reaches it, or the window of its next one will.
With(p, x) ==
    CASE at[p] = "success" -> Found(p, x)
      [] at[p] \in {"shards", "commit", "finish"} -> x <= now[p]
      [] OTHER -> IF UseQuery THEN x <= source ELSE x <= p * Interval

\* Every row up to w is with one of the runs up to q.
Kept(q, w) == \A x \in 1..w : \E p \in 1..q : With(p, x)

\* The rows of the window of run r that a try has behind it.
FilesOf(r) ==
    \A x \in (prev[r] + 1)..now[r] :
        /\ at[r] \in {"commit", "finish"} => Found(r, x)
        /\ at[r] = "shards" /\ result[r] # NoResults =>
              \E s \in Shards : x \in object[r][s] /\ (perFile => result[r][s] = "uploaded")

KeptOf(r) ==
    /\ FilesOf(r)
    /\ at[r] \in {"query", "shards", "commit", "finish"} => Kept(r - 1, prev[r])
    /\ xcom[r] # NoMark => Kept(r, xcom[r])

RowsKept == \A r \in Runs : KeptOf(r)

\* A manifest that an unload has written lists the row of every file it answers for.
LEMMA FoundNow ==
    ASSUME Base, NEW r \in Runs, UnloadManifest(r), NEW x, NEW s \in Shards,
           x \in object[r][s], perFile => result[r][s] = "uploaded", perFile' = perFile
    PROVE  Found(r, x)'
<1> SUFFICES ASSUME perFile PROVE Found(r, x)'
  BY BaseTypes DEF UnloadManifest, Found
<1>1. manifest' = [manifest EXCEPT ![r] =
          [t \in Shards |-> IF result[r][t] = "uploaded" THEN object[r][t] ELSE {}]]
  BY DEF UnloadManifest
<1>2. /\ manifest \in [Runs -> [Shards -> SUBSET Rows] \cup {NoManifest}]
      /\ object \in [Runs -> [Shards -> SUBSET Rows]] /\ object' = object
  BY BaseTypes DEF TypeOK, UnloadManifest
<1>3. manifest'[r] = [t \in Shards |-> IF result[r][t] = "uploaded" THEN object[r][t] ELSE {}]
  BY <1>1, <1>2
<1>4. manifest'[r] # NoManifest
  <2>1. manifest'[r] \in [Shards -> SUBSET Rows] BY <1>2, <1>3
  <2> QED BY <2>1, WrittenManifest
<1> QED BY <1>2, <1>3, <1>4 DEF Found

\* A row stays with its run, unless the try of that run succeeds and the row is
\* before its window.
LEMMA WithStep ==
    ASSUME WBase, RowsKept, [WNext]_wvars, NEW p \in Runs, NEW x \in Nat \ {0}, With(p, x)
    PROVE  With(p, x)' \/ (EndSuccess(p) /\ x <= prev[p])
<1> USE RunAssumption
<1>0. /\ Base /\ Existing /\ WindowEnd /\ Status
      /\ at \in [Runs -> States] /\ prev \in [Runs -> Nat] /\ now \in [Runs -> Nat]
      /\ source \in Nat /\ p * Interval \in Nat
      /\ object \in [Runs -> [Shards -> SUBSET Rows]]
      /\ (UseQuery' <=> UseQuery) /\ perFile' = perFile /\ FilesOf(p)
  BY BaseTypes, WSteps, OptionsKept DEF WBase, RowsKept, KeptOf, Runs
<1>1. /\ at[p] = "success" => x <= source /\ (~UseQuery => x <= p * Interval)
      /\ at[p] \in {"shards", "commit", "finish"}
            => x <= source /\ (~UseQuery => x <= p * Interval)
  BY <1>0 DEF With, Found, Existing, WindowEnd
<1>2. CASE UNCHANGED vars BY <1>0, <1>2 DEF vars, With, Found
<1>3. CASE CommitRow
  <2>1. source' = source + 1 /\ UNCHANGED <<at, now, object, manifest>>
    BY <1>3 DEF CommitRow
  <2> QED BY <1>0, <2>1 DEF With, Found
<1>4. ASSUME NEW r \in Runs, CommonOf(r) \/ Statement(r) \/ UnloadManifest(r), p # r
      PROVE  With(p, x)'
  <2>1. at'[p] = at[p] /\ now'[p] = now[p] /\ manifest'[p] = manifest[p] /\ source' = source
        /\ object'[p] = object[p]
    <3>1. CASE CommonOf(r)
      BY <1>0, <1>4, <3>1
         DEF CommonOf, StartTry, EndFailed, EndSuccess, EndTry, PullWatermark,
             ComputeWatermark, CommitWatermark
    <3>2. CASE Statement(r)
      <4>1. PICK files, answers : Outcome(r, files, answers)
        BY <1>0, <3>2, StatementOutcome
      <4> QED BY <1>0, <1>4, <3>2, <4>1 DEF Outcome, Statement, StatementFrame
    <3>3. CASE UnloadManifest(r)
      <4>1. manifest \in [Runs -> [Shards -> SUBSET Rows] \cup {NoManifest}]
        BY <1>0, BaseTypes DEF TypeOK
      <4> QED BY <1>0, <1>4, <3>3, <4>1 DEF UnloadManifest
    <3> QED BY <1>4, <3>1, <3>2, <3>3
  <2> QED BY <1>0, <2>1 DEF With, Found
<1>5. CASE StartTry(p) \/ EndFailed(p)
  <2>1. /\ at'[p] \in {"prepare", "failed"} /\ source' = source
    BY <1>0, <1>5 DEF StartTry, EndFailed, EndTry
  <2> QED BY <1>0, <1>1, <2>1 DEF With
<1>6. CASE EndSuccess(p)
  <2>1. at[p] = "finish" /\ at'[p] = "success" /\ UNCHANGED <<object, manifest>>
    BY <1>0, <1>6 DEF EndSuccess, EndTry
  <2>2. x <= now[p] BY <2>1 DEF With
  <2>3. CASE prev[p] < x
    <3>1. x \in (prev[p] + 1)..now[p] BY <1>0, <2>2, <2>3
    <3>2. Found(p, x) BY <1>0, <2>1, <3>1 DEF FilesOf
    <3> QED BY <1>0, <2>1, <3>2 DEF With, Found
  <2> QED BY <1>0, <1>6, <2>3
<1>7. CASE PullWatermark(p)
  <2>1. at[p] = "prepare" /\ at'[p] = "query" /\ source' = source
    BY <1>0, <1>7 DEF PullWatermark
  <2> QED BY <1>0, <2>1 DEF With
<1>8. CASE ComputeWatermark(p)
  <2>1. /\ at[p] = "query" /\ at'[p] = "shards"
        /\ now'[p] = IF ~UseQuery THEN p * Interval ELSE IF source = 0 THEN prev[p] ELSE source
    BY <1>0, <1>8 DEF ComputeWatermark
  <2> QED BY <1>0, <2>1 DEF With
<1>9. CASE CommitWatermark(p)
  <2>1. at[p] = "commit" /\ at'[p] = "finish" /\ now' = now
    BY <1>0, <1>9 DEF CommitWatermark
  <2> QED BY <1>0, <2>1 DEF With
<1>10. CASE Statement(p) \/ UnloadManifest(p)
  <2>1. at[p] = "shards" /\ UNCHANGED <<source, now>>
    BY <1>10 DEF Statement, StatementFrame, UnloadManifest
  <2>2. at'[p] \in {"shards", "commit", "failing"}
    <3>1. CASE Statement(p)
      <4>1. PICK files, answers : Outcome(p, files, answers)
        BY <1>0, <3>1, StatementOutcome
      <4> QED BY <1>0, <2>1, <4>1 DEF Outcome
    <3>2. CASE UnloadManifest(p) BY <1>0, <3>2 DEF UnloadManifest
    <3> QED BY <1>10, <3>1, <3>2
  <2> QED BY <1>0, <1>1, <2>1, <2>2 DEF With
<1> QED BY <1>2, <1>3, <1>4, <1>5, <1>6, <1>7, <1>8, <1>9, <1>10, WSteps
        DEF Common, CommonOf

\* So that no row is left alone: what a successful try does not list, because it is
\* before its window, is with an earlier run.
LEMMA KeptStep ==
    ASSUME WBase, RowsKept, [WNext]_wvars, NEW q \in 0..NumRuns, NEW w \in Int, Kept(q, w)
    PROVE  Kept(q, w)'
<1> USE RunAssumption
<1> SUFFICES ASSUME NEW x \in 1..w PROVE \E p \in 1..q : With(p, x)'
  BY DEF Kept
<1>1. PICK p \in 1..q : With(p, x) BY DEF Kept
<1>2. p \in Runs /\ x \in Nat \ {0} BY DEF Runs
<1>3. CASE With(p, x)' BY <1>1, <1>3
<1>4. CASE EndSuccess(p) /\ x <= prev[p]
  <2>1. at[p] = "finish" /\ at' = [at EXCEPT ![p] = "success"]
    BY <1>4 DEF EndSuccess, EndTry
  <2>2. Kept(p - 1, prev[p]) BY <1>2, <2>1 DEF RowsKept, KeptOf
  <2>3. prev[p] \in Nat BY <1>2, BaseTypes DEF WBase
  <2>4. PICK a \in 1..(p - 1) : With(a, x) BY <1>2, <1>4, <2>2, <2>3 DEF Kept
  <2>5. a \in Runs /\ a # p /\ a \in 1..q BY <1>2 DEF Runs
  <2>6. ~EndSuccess(a)
    <3>1. at \in [Runs -> States] BY BaseTypes DEF WBase
    <3>2. at'[a] = at[a] BY <2>1, <2>5, <3>1
    <3> QED BY <2>5, <3>1, <3>2 DEF EndSuccess, EndTry
  <2> QED BY <1>2, <2>4, <2>5, <2>6, WithStep
<1> QED BY <1>1, <1>2, <1>3, <1>4, WithStep

\* A run whose try does not move keeps its rows.
LEMMA KeptFrame ==
    ASSUME WBase, RowsKept, [WNext]_wvars, NEW p \in Runs,
           at'[p] = at[p], prev'[p] = prev[p], now'[p] = now[p], xcom'[p] = xcom[p],
           result'[p] = result[p], object'[p] = object[p], manifest'[p] = manifest[p]
    PROVE  KeptOf(p)'
<1>1. p \in 0..NumRuns /\ p - 1 \in 0..NumRuns /\ prev[p] \in Int /\ xcom[p] \in Int
  <2>1. prev \in [Runs -> Nat] /\ xcom \in [Runs -> Marks] BY BaseTypes DEF WBase
  <2> QED BY <2>1, RunAssumption DEF Runs, Marks, NoMark
<1>2. KeptOf(p) BY DEF RowsKept
<1>3. FilesOf(p)' BY <1>2, WSteps DEF KeptOf, FilesOf, Found
<1>4. at[p] \in {"query", "shards", "commit", "finish"} => Kept(p - 1, prev[p])'
  <2> SUFFICES ASSUME at[p] \in {"query", "shards", "commit", "finish"}
               PROVE  Kept(p - 1, prev[p])'
    OBVIOUS
  <2>1. PICK v \in Int : v = prev[p] BY <1>1
  <2>2. Kept(p - 1, v) BY <1>2, <2>1 DEF KeptOf
  <2>3. Kept(p - 1, v)' BY <1>1, <2>2, KeptStep
  <2> QED BY <2>1, <2>3 DEF Kept
<1>5. xcom[p] # NoMark => Kept(p, xcom[p])'
  <2> SUFFICES ASSUME xcom[p] # NoMark PROVE Kept(p, xcom[p])' OBVIOUS
  <2>1. PICK v \in Int : v = xcom[p] BY <1>1
  <2>2. Kept(p, v) BY <1>2, <2>1 DEF KeptOf
  <2>3. Kept(p, v)' BY <1>1, <2>2, KeptStep
  <2> QED BY <2>1, <2>3 DEF Kept
<1> QED BY <1>2, <1>3, <1>4, <1>5 DEF KeptOf

\* What a watermark says of the earlier runs holds for the try that pulls it.
LEMMA KeptPulled ==
    ASSUME WBase, RowsKept, [WNext]_wvars, NEW p \in Runs, PullWatermark(p)
    PROVE  Kept(p - 1, prev[p])'
<1> USE RunAssumption
<1>1. CASE prev'[p] = DefaultValue BY <1>1 DEF Kept, DefaultValue
<1>2. ASSUME NEW q \in 1..(p - 1), xcom[q] # NoMark, prev'[p] = xcom[q]
      PROVE  Kept(p - 1, prev[p])'
  <2>1. q \in Runs /\ q \in 0..NumRuns /\ 1..q \in SUBSET (1..(p - 1)) BY DEF Runs
  <2>2. xcom[q] \in Int
    <3>1. xcom \in [Runs -> Marks] BY BaseTypes DEF WBase
    <3> QED BY <2>1, <3>1 DEF Marks, NoMark
  <2>3. PICK v \in Int : v = xcom[q] BY <2>2
  <2>4. Kept(q, v) BY <1>2, <2>1, <2>3 DEF RowsKept, KeptOf
  <2>5. Kept(q, v)' BY <2>1, <2>4, KeptStep
  <2> QED BY <1>2, <2>1, <2>3, <2>5 DEF Kept
<1> QED BY <1>1, <1>2, Pulled DEF WBase

\* The steps of a try keep the rows of its run.
LEMMA KeptTry ==
    ASSUME WBase, RowsKept, [WNext]_wvars, NEW p \in Runs,
           CommonOf(p) \/ Statement(p) \/ UnloadManifest(p)
    PROVE  KeptOf(p)'
<1> USE RunAssumption
<1>0. /\ Base /\ Existing /\ Status /\ at \in [Runs -> States] /\ prev \in [Runs -> Nat]
      /\ now \in [Runs -> Nat] /\ result \in [Runs -> [Shards -> Answers]]
      /\ object \in [Runs -> [Shards -> SUBSET Rows]] /\ xcom \in [Runs -> Marks]
      /\ perFile' = perFile
  BY BaseTypes, WSteps DEF WBase
<1>1. p \in 0..NumRuns /\ p - 1 \in 0..NumRuns /\ prev[p] \in Int /\ xcom[p] \in Int
  BY <1>0 DEF Runs, Marks, NoMark
<1>2. KeptOf(p) BY DEF RowsKept
<1>3. prev'[p] = prev[p] /\ at[p] \in {"query", "shards", "commit", "finish"}
          => Kept(p - 1, prev[p])'
  <2> SUFFICES ASSUME prev'[p] = prev[p], at[p] \in {"query", "shards", "commit", "finish"}
               PROVE  Kept(p - 1, prev[p])'
    OBVIOUS
  <2>1. PICK v \in Int : v = prev[p] BY <1>1
  <2>2. Kept(p - 1, v) BY <1>2, <2>1 DEF KeptOf
  <2>3. Kept(p - 1, v)' BY <1>1, <2>2, KeptStep
  <2> QED BY <2>1, <2>3 DEF Kept
<1>4. xcom'[p] = xcom[p] /\ xcom[p] # NoMark => Kept(p, xcom[p])'
  <2> SUFFICES ASSUME xcom'[p] = xcom[p], xcom[p] # NoMark PROVE Kept(p, xcom[p])' OBVIOUS
  <2>1. PICK v \in Int : v = xcom[p] BY <1>1
  <2>2. Kept(p, v) BY <1>2, <2>1 DEF KeptOf
  <2>3. Kept(p, v)' BY <1>1, <2>2, KeptStep
  <2> QED BY <2>1, <2>3 DEF Kept
<1>5. CASE StartTry(p)
  <2>1. at'[p] = "prepare" /\ xcom'[p] = NoMark BY <1>0, <1>5 DEF StartTry
  <2> QED BY <2>1 DEF KeptOf, FilesOf
<1>6. CASE EndFailed(p) \/ EndSuccess(p)
  <2>1. at'[p] \in {"failed", "success"} /\ xcom' = xcom
    BY <1>0, <1>6 DEF EndFailed, EndSuccess, EndTry
  <2> QED BY <1>4, <2>1 DEF KeptOf, FilesOf
<1>7. CASE PullWatermark(p)
  <2>1. at'[p] = "query" /\ xcom' = xcom BY <1>0, <1>7 DEF PullWatermark
  <2> QED BY <1>4, <1>7, <2>1, KeptPulled DEF KeptOf, FilesOf
<1>8. CASE ComputeWatermark(p)
  <2>1. /\ at[p] = "query" /\ at'[p] = "shards" /\ UNCHANGED <<prev, xcom, result>>
    BY <1>0, <1>8 DEF ComputeWatermark
  <2>2. result[p] = NoResults BY <1>0, <2>1 DEF Status
  <2> QED BY <1>3, <1>4, <2>1, <2>2 DEF KeptOf, FilesOf
<1>9. CASE CommitWatermark(p)
  <2>1. /\ at[p] = "commit" /\ at'[p] = "finish" /\ xcom'[p] \in {xcom[p], now[p]}
        /\ UNCHANGED <<prev, now, object, manifest>>
    BY <1>0, <1>9 DEF CommitWatermark
  <2>2. FilesOf(p)' BY <1>0, <1>2, <2>1 DEF KeptOf, FilesOf, Found
  <2>3. xcom'[p] = now[p] => Kept(p, xcom[p])'
    <3>1. p \in 1..p BY DEF Runs
    <3> QED BY <2>1, <3>1 DEF Kept, With
  <2> QED BY <1>3, <1>4, <2>1, <2>2, <2>3 DEF KeptOf
<1>10. CASE Statement(p)
  <2>1. at[p] = "shards" /\ UNCHANGED <<prev, now, xcom>>
    BY <1>10 DEF Statement, StatementFrame
  <2>2. PICK files, answers : Outcome(p, files, answers) BY <1>0, <1>10, StatementOutcome
  <2>3. FilesOf(p)'
    <3>1. CASE at' = [at EXCEPT ![p] = "failing"] BY <1>0, <3>1 DEF FilesOf
    <3>2. CASE /\ object' = [object EXCEPT ![p] = files] /\ at' = at
               /\ result' = [result EXCEPT ![p] = answers]
               /\ \A x \in Window(p) : \E s \in Shards :
                     x \in files[s] /\ (perFile => answers[s] = "uploaded")
      <4>1. object'[p] = files /\ result'[p] = answers /\ at'[p] = "shards"
        BY <1>0, <2>1, <3>2
      <4> QED BY <1>0, <2>1, <3>2, <4>1, WindowRows DEF FilesOf
    <3> QED BY <2>2, <3>1, <3>2 DEF Outcome
  <2> QED BY <1>3, <1>4, <2>1, <2>3 DEF KeptOf
<1>11. CASE UnloadManifest(p)
  <2>1. /\ at[p] = "shards" /\ result[p] # NoResults
        /\ UNCHANGED <<prev, now, xcom, object, result>>
    BY <1>11 DEF UnloadManifest
  <2>2. at'[p] \in {"commit", "failing"} BY <1>0, <1>11 DEF UnloadManifest
  <2>3. ASSUME NEW x \in (prev[p] + 1)..now[p] PROVE Found(p, x)'
    <3>1. PICK s \in Shards : x \in object[p][s] /\ (perFile => result[p][s] = "uploaded")
      BY <1>2, <2>1 DEF KeptOf, FilesOf
    <3> QED BY <1>0, <1>11, <3>1, FoundNow
  <2>4. FilesOf(p)' BY <2>1, <2>2, <2>3 DEF FilesOf
  <2> QED BY <1>3, <1>4, <2>1, <2>4 DEF KeptOf
<1> QED BY <1>5, <1>6, <1>7, <1>8, <1>9, <1>10, <1>11 DEF CommonOf

\* Every step keeps the rows of every run.
LEMMA RowsKeptStep == WBase /\ RowsKept /\ [WNext]_wvars => RowsKept'
<1> SUFFICES ASSUME WBase, RowsKept, [WNext]_wvars, NEW p \in Runs PROVE KeptOf(p)'
  BY DEF RowsKept
<1>0. /\ Base /\ at \in [Runs -> States] /\ prev \in [Runs -> Nat] /\ now \in [Runs -> Nat]
      /\ result \in [Runs -> [Shards -> Answers]] /\ xcom \in [Runs -> Marks]
      /\ object \in [Runs -> [Shards -> SUBSET Rows]]
      /\ manifest \in [Runs -> [Shards -> SUBSET Rows] \cup {NoManifest}]
  BY BaseTypes DEF WBase, TypeOK
<1>1. CASE UNCHANGED vars BY <1>1, KeptFrame DEF vars
<1>2. CASE CommitRow BY <1>2, KeptFrame DEF CommitRow
<1>3. ASSUME NEW r \in Runs, CommonOf(r) \/ Statement(r) \/ UnloadManifest(r), p # r
      PROVE  KeptOf(p)'
  <2>1. CASE CommonOf(r)
    BY <1>0, <1>3, <2>1, KeptFrame
       DEF CommonOf, StartTry, EndFailed, EndSuccess, EndTry, PullWatermark,
           ComputeWatermark, CommitWatermark
  <2>2. CASE Statement(r)
    <3>1. PICK files, answers : Outcome(r, files, answers) BY <1>0, <2>2, StatementOutcome
    <3>2. at'[p] = at[p] /\ object'[p] = object[p] /\ result'[p] = result[p]
      BY <1>0, <1>3, <3>1 DEF Outcome
    <3> QED BY <2>2, <3>2, KeptFrame DEF Statement, StatementFrame
  <2>3. CASE UnloadManifest(r) BY <1>0, <1>3, <2>3, KeptFrame DEF UnloadManifest
  <2> QED BY <1>3, <2>1, <2>2, <2>3
<1> QED BY <1>1, <1>2, <1>3, KeptTry, WSteps DEF Common

\* While every date up to r has ended its last try with success, each row up to the
\* watermark of r is in a file that its manifest lists, for any number of dates,
\* files, rows and tries, and whichever strategy writes the files (_run_unload).
THEOREM RowsAreBack == WSpec => []RowsBackOnceDone
<1>1. WInit => RowsKept
  BY DEF WInit, Init, RowsKept, KeptOf, FilesOf, NoMark
<1>2. RowsKept => RowsBackOnceDone
  <2> SUFFICES ASSUME RowsKept, NEW r \in Runs, xcom[r] # NoMark,
                      \A q \in 1..r : at[q] = "success", NEW x \in 1..xcom[r]
               PROVE  \E q \in 1..r : Found(q, x)
    BY DEF RowsBackOnceDone, Found
  <2>1. PICK q \in 1..r : With(q, x) BY DEF RowsKept, KeptOf, Kept
  <2> QED BY <2>1 DEF With
<1> QED BY <1>1, <1>2, RowsKeptStep, WBaseHolds, PTL DEF WSpec
=============================================================================
