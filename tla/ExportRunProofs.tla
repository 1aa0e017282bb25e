-------------------------- MODULE ExportRunProofs --------------------------
(***************************************************************************)
(* Proofs about ExportRun, for any number of runs, shards, rows and tries. *)
(*                                                                         *)
(* NothingLost is not inductive: a watermark only says where a later run   *)
(* starts, so that the proof has to know what the running tries have read  *)
(* and what the objects of earlier tries contain.  Base is what holds with *)
(* any options, and for UnloadWindows too; Inv adds what the earlier dates *)
(* cover.  Its heart is that replacing an object never uncovers a row      *)
(* (UploadKeepsCover), because a later try selects up to a later MAX, and  *)
(* what it leaves out at the start is covered by earlier dates.            *)
(* CatalogueCovers needs the same of the manifests (Catalogue), whose      *)
(* content Recorded describes.                                             *)
(***************************************************************************)
EXTENDS ExportRun, TLAPS

States == Active \cup {"idle", "failed", "success"}
Answers == {"none", "skipped", "empty", "uploaded"}

\* The steps that do not depend on how a try exports its rows.
CommonOf(r) ==
    \/ StartTry(r) \/ EndFailed(r) \/ EndSuccess(r)
    \/ PullWatermark(r) \/ ComputeWatermark(r) \/ CommitWatermark(r)
Common == options' = options /\ (CommitRow \/ \E r \in Runs : CommonOf(r))

\* Those of the shards.
ShardStep(r, s) == SkipShard(r, s) \/ EmptyShard(r, s) \/ UploadShard(r, s)

\* The steps of ExportRun.
LEMMA Steps ==
    ASSUME [Next]_vars
    PROVE  /\ options' = options
           /\ \/ UNCHANGED vars \/ Common
              \/ \E r \in Runs : WriteManifest(r) \/ \E s \in Shards : ShardStep(r, s)
BY DEF Next, Try, vars, Common, CommonOf, ShardStep

-----------------------------------------------------------------------------
(* Type correctness.                                                       *)

\* What a try selects are rows of the source table.
LEMMA SelectedRows ==
    ASSUME TypeOK, NEW r \in Runs, NEW s \in Shards
    PROVE  Selected(r, s) \in SUBSET Rows
<1>1. prev[r] \in Nat /\ now[r] \in Nat /\ source \in Nat /\ source <= MaxRows /\ MaxRows \in Nat
  BY RunAssumption DEF TypeOK
<1> QED BY <1>1 DEF Selected, Rows

\* The initial state has the right types.
LEMMA TypeInit == Init => TypeOK
<1> SUFFICES ASSUME Init PROVE TypeOK OBVIOUS
<1> USE RunAssumption
<1>1. NoResults \in [Shards -> Answers] BY DEF NoResults, Answers
<1>2. options \in Options /\ source \in 0..MaxRows /\ tries \in [Runs -> 0..MaxTries]
  BY DEF Init
<1>3. at \in [Runs -> States] BY DEF Init, States
<1>4. prev \in [Runs -> Nat] /\ now \in [Runs -> Nat] BY DEF Init, DefaultValue
<1>5. result \in [Runs -> [Shards -> Answers]] BY <1>1 DEF Init
<1>6. object \in [Runs -> [Shards -> SUBSET Rows]] BY DEF Init
<1>7. manifest \in [Runs -> [Shards -> SUBSET Rows] \cup {NoManifest}] BY DEF Init
<1>8. xcom \in [Runs -> Marks] BY DEF Init, Marks
<1> QED BY <1>2, <1>3, <1>4, <1>5, <1>6, <1>7, <1>8 DEF TypeOK, States, Answers

\* A try that ends leaves well-typed locals behind.
LEMMA TypeEndTry ==
    ASSUME TypeOK, options' = options, NEW r \in Runs, NEW state \in {"failed", "success"},
           EndTry(r, state)
    PROVE  TypeOK'
<1>1. NoResults \in [Shards -> Answers] BY DEF NoResults, Answers
<1>2. at' \in [Runs -> States] BY DEF EndTry, TypeOK, States
<1>3. prev' \in [Runs -> Nat] /\ now' \in [Runs -> Nat] BY DEF EndTry, TypeOK, DefaultValue
<1>4. result' \in [Runs -> [Shards -> Answers]] BY <1>1 DEF EndTry, TypeOK, Answers
<1> QED BY <1>2, <1>3, <1>4 DEF EndTry, TypeOK, States, Answers

\* The common steps keep the types.
LEMMA TypeCommon == TypeOK /\ Common => TypeOK'
<1> SUFFICES ASSUME TypeOK, Common PROVE TypeOK' OBVIOUS
<1> USE RunAssumption
<1>1. options' = options BY DEF Common
<1>2. CASE CommitRow BY <1>1, <1>2 DEF CommitRow, TypeOK
<1>3. ASSUME NEW r \in Runs, StartTry(r) PROVE TypeOK'
  <2>1. at' \in [Runs -> States] BY <1>3 DEF StartTry, TypeOK, Active, States
  <2>2. tries' \in [Runs -> 0..MaxTries] BY <1>3 DEF StartTry, TypeOK
  <2>3. xcom' \in [Runs -> Marks] BY <1>3 DEF StartTry, TypeOK, Marks
  <2> QED BY <1>1, <1>3, <2>1, <2>2, <2>3 DEF StartTry, TypeOK, States
<1>4. ASSUME NEW r \in Runs, EndFailed(r) PROVE TypeOK'
  BY <1>1, <1>4, TypeEndTry DEF EndFailed
<1>5. ASSUME NEW r \in Runs, EndSuccess(r) PROVE TypeOK'
  BY <1>1, <1>5, TypeEndTry DEF EndSuccess
<1>6. ASSUME NEW r \in Runs, PullWatermark(r) PROVE TypeOK'
  <2>1. at' \in [Runs -> States] BY <1>6 DEF PullWatermark, TypeOK, Active, States
  <2>2. \A q \in Latest(r) : xcom[q] \in Nat BY DEF Latest, TypeOK, Marks, NoMark, Runs
  <2>3. PICK v \in Nat : prev' = [prev EXCEPT ![r] = v]
    BY <1>6, <2>2 DEF PullWatermark, DefaultValue
  <2>4. prev' \in [Runs -> Nat] BY <2>3 DEF TypeOK
  <2> QED BY <1>1, <1>6, <2>1, <2>4 DEF PullWatermark, TypeOK, States
<1>7. ASSUME NEW r \in Runs, ComputeWatermark(r) PROVE TypeOK'
  <2>1. at' \in [Runs -> States] BY <1>7 DEF ComputeWatermark, TypeOK, Active, States
  <2>2. r * Interval \in Nat /\ source \in Nat /\ prev[r] \in Nat BY DEF Runs, TypeOK
  <2>3. now' \in [Runs -> Nat] BY <1>7, <2>2 DEF ComputeWatermark, TypeOK
  <2> QED BY <1>1, <1>7, <2>1, <2>3 DEF ComputeWatermark, TypeOK, States
<1>8. ASSUME NEW r \in Runs, CommitWatermark(r) PROVE TypeOK'
  <2>1. at' \in [Runs -> States] BY <1>8 DEF CommitWatermark, TypeOK, Active, States
  <2>2. xcom' \in [Runs -> Marks] BY <1>8 DEF CommitWatermark, TypeOK, Marks
  <2> QED BY <1>1, <1>8, <2>1, <2>2 DEF CommitWatermark, TypeOK, States
<1> QED BY <1>2, <1>3, <1>4, <1>5, <1>6, <1>7, <1>8 DEF Common, CommonOf

\* So do those of the shards and the manifest.
LEMMA TypeShard ==
    ASSUME TypeOK, options' = options, NEW r \in Runs, NEW s \in Shards, ShardStep(r, s)
    PROVE  TypeOK'
<1>1. result' \in [Runs -> [Shards -> Answers]]
  <2>1. result \in [Runs -> [Shards -> Answers]] BY DEF TypeOK, Answers
  <2>2. \/ result' = result
        \/ \E v \in Answers : result' = [result EXCEPT ![r][s] = v]
    BY DEF ShardStep, SkipShard, EmptyShard, UploadShard, Answers
  <2> QED BY <2>1, <2>2
<1>2. object' \in [Runs -> [Shards -> SUBSET Rows]]
  <2>1. object \in [Runs -> [Shards -> SUBSET Rows]] BY DEF TypeOK
  <2>2. \/ object' = object
        \/ \E v \in SUBSET Rows : object' = [object EXCEPT ![r][s] = v]
    BY SelectedRows DEF ShardStep, SkipShard, EmptyShard, UploadShard
  <2> QED BY <2>1, <2>2
<1> QED BY <1>1, <1>2 DEF ShardStep, SkipShard, EmptyShard, UploadShard, ShardFrame, TypeOK, Answers

LEMMA TypeManifest ==
    ASSUME TypeOK, options' = options, NEW r \in Runs, WriteManifest(r)
    PROVE  TypeOK'
<1>1. at' \in [Runs -> States] BY DEF WriteManifest, TypeOK, Active, States
<1>2. Listing(r) \in [Shards -> SUBSET Rows] BY DEF TypeOK, Listing
<1>3. manifest' \in [Runs -> [Shards -> SUBSET Rows] \cup {NoManifest}]
  BY <1>2 DEF WriteManifest, TypeOK
<1> QED BY <1>1, <1>3 DEF WriteManifest, TypeOK, States

\* Every step keeps the types.
LEMMA TypeStep == TypeOK /\ [Next]_vars => TypeOK'
<1> SUFFICES ASSUME TypeOK, [Next]_vars PROVE TypeOK' OBVIOUS
<1>1. CASE UNCHANGED vars BY <1>1 DEF vars, TypeOK
<1> QED BY <1>1, Steps, TypeCommon, TypeShard, TypeManifest

\* Every variable keeps its type in every reachable state.
THEOREM TypeCorrect == Spec => []TypeOK
<1>1. Init => TypeOK BY TypeInit
<1>2. TypeOK /\ [Next]_vars => TypeOK' BY TypeStep
<1> QED BY <1>1, <1>2, PTL DEF Spec

-----------------------------------------------------------------------------
(* What holds with any options: no assumption on skip_if_exists.           *)

\* No variable names a row that is not in the source table yet.
Existing ==
    \A r \in Runs :
        /\ prev[r] <= source /\ now[r] <= source /\ xcom[r] <= source
        /\ \A s \in Shards : \A x \in object[r][s] : x <= source

\* While its shards run, a try's window ends after every row of the objects that
\* earlier tries have left; a template gives every try the same end.
WindowEnd ==
    \A r \in Runs :
        /\ at[r] = "shards" => \A s \in Shards : \A x \in object[r][s] : x <= now[r]
        /\ ~UseQuery =>
              /\ at[r] \in Active => r * Interval <= source
              /\ at[r] \in {"shards", "commit", "finish"} => now[r] = r * Interval
              /\ \A s \in Shards : \A x \in object[r][s] : x <= r * Interval

\* What the control state of a try says about its XCom and its shards.
Status ==
    \A r \in Runs :
        /\ at[r] = "prepare" => xcom[r] = NoMark
        /\ at[r] \in {"idle", "prepare", "query", "failed", "success"}
               => result[r] = NoResults
        /\ at[r] \in {"commit", "finish"} => \A s \in Shards : result[r][s] # "none"

Base == TypeOK /\ Existing /\ WindowEnd /\ Status

\* The types that Base fixes, in the form that the steps below use.
LEMMA BaseTypes ==
    ASSUME Base
    PROVE  /\ TypeOK /\ Existing /\ WindowEnd /\ Status
           /\ source \in Nat /\ Interval \in Nat
           /\ object \in [Runs -> [Shards -> SUBSET Rows]]
           /\ result \in [Runs -> [Shards -> Answers]]
           /\ prev \in [Runs -> Nat] /\ now \in [Runs -> Nat] /\ xcom \in [Runs -> Marks]
           /\ at \in [Runs -> States]
           /\ \A r \in Runs, s \in Shards : object[r][s] \subseteq Nat \ {0}
BY RunAssumption DEF Base, TypeOK, States, Answers, Rows

\* The initial state: nothing has been exported.
LEMMA BaseInit == Init => Base
<1> SUFFICES ASSUME Init PROVE Base OBVIOUS
<1>1. TypeOK BY TypeInit
<1>2. Existing /\ WindowEnd /\ Status
  BY DEF Init, Existing, WindowEnd, Status, Active, DefaultValue, NoMark
<1> QED BY <1>1, <1>2 DEF Base

\* Options are chosen once.
LEMMA OptionsKept ==
    ASSUME options' = options
    PROVE  (UseQuery' <=> UseQuery) /\ (SkipIfExists' <=> SkipIfExists)
BY DEF UseQuery, SkipIfExists

\* A pulled watermark is the default or that of an earlier date.
LEMMA Pulled ==
    ASSUME Base, NEW r \in Runs, PullWatermark(r)
    PROVE  /\ prev' = [prev EXCEPT ![r] = prev'[r]] /\ prev'[r] \in Nat
           /\ \/ prev'[r] = DefaultValue
              \/ \E q \in 1..(r - 1) : xcom[q] # NoMark /\ prev'[r] = xcom[q]
<1>1. prev \in [Runs -> Nat] /\ xcom \in [Runs -> Marks] BY BaseTypes
<1>2. CASE prev' = [prev EXCEPT ![r] = DefaultValue] BY <1>1, <1>2 DEF DefaultValue
<1>3. ASSUME NEW q \in Latest(r), prev' = [prev EXCEPT ![r] = xcom[q]]
      PROVE  /\ prev' = [prev EXCEPT ![r] = prev'[r]] /\ prev'[r] \in Nat
             /\ q \in 1..(r - 1) /\ xcom[q] # NoMark /\ prev'[r] = xcom[q]
  <2>1. q \in 1..r /\ xcom[q] # NoMark BY DEF Latest
  <2>2. xcom[r] = NoMark BY DEF PullWatermark, Base, Status
  <2>3. q \in 1..(r - 1) /\ q \in Runs BY <2>1, <2>2, RunAssumption DEF Runs
  <2>4. xcom[q] \in Nat BY <1>1, <2>1, <2>3 DEF Marks
  <2>5. prev'[r] = xcom[q] BY <1>1, <1>3
  <2> QED BY <1>3, <2>1, <2>3, <2>4, <2>5
<1>4. \/ prev' = [prev EXCEPT ![r] = DefaultValue]
      \/ \E q \in Latest(r) : prev' = [prev EXCEPT ![r] = xcom[q]]
  BY DEF PullWatermark
<1> QED BY <1>2, <1>3, <1>4

\* The common steps name no row that does not exist.
LEMMA ExistingCommon == Base /\ Common => Existing'
<1> SUFFICES ASSUME Base, Common PROVE Existing' OBVIOUS
<1>0. /\ TypeOK /\ Existing /\ source \in Nat /\ object \in [Runs -> [Shards -> SUBSET Rows]]
      /\ prev \in [Runs -> Nat] /\ now \in [Runs -> Nat] /\ xcom \in [Runs -> Marks]
  BY BaseTypes
<1>1. CASE CommitRow
  <2>1. source' = source + 1 /\ UNCHANGED <<prev, now, xcom, object>> BY <1>1 DEF CommitRow
  <2>2. SUFFICES ASSUME NEW r \in Runs
                 PROVE  /\ prev[r] <= source + 1 /\ now[r] <= source + 1 /\ xcom[r] <= source + 1
                        /\ \A s \in Shards : \A x \in object[r][s] : x <= source + 1
    BY <2>1 DEF Existing
  <2>3. prev[r] \in Int /\ now[r] \in Int /\ xcom[r] \in Int BY <1>0 DEF Marks, NoMark
  <2>4. \A s \in Shards : \A x \in object[r][s] : x \in Int BY <1>0 DEF Rows
  <2> QED BY <1>0, <2>3, <2>4 DEF Existing
<1>2. ASSUME NEW r \in Runs, StartTry(r) PROVE Existing'
  BY <1>0, <1>2 DEF StartTry, Existing, NoMark
<1>3. ASSUME NEW r \in Runs, NEW state, EndTry(r, state) PROVE Existing'
  BY <1>0, <1>3 DEF EndTry, Existing, DefaultValue
<1>4. ASSUME NEW r \in Runs, PullWatermark(r) PROVE Existing'
  <2>1. prev' = [prev EXCEPT ![r] = prev'[r]] /\ prev'[r] <= source
    <3>1. prev' = [prev EXCEPT ![r] = prev'[r]]
          /\ \/ prev'[r] = DefaultValue
             \/ \E q \in 1..(r - 1) : prev'[r] = xcom[q]
      BY <1>4, Pulled
    <3>2. 1..(r - 1) \in SUBSET Runs BY RunAssumption DEF Runs
    <3> QED BY <1>0, <3>1, <3>2 DEF Existing, DefaultValue
  <2> QED BY <1>0, <1>4, <2>1 DEF PullWatermark, Existing
<1>5. ASSUME NEW r \in Runs, ComputeWatermark(r) PROVE Existing'
  <2>1. ~UseQuery => r * Interval <= source
    BY <1>5 DEF ComputeWatermark, Base, WindowEnd, Active
  <2> QED BY <1>0, <1>5, <2>1 DEF ComputeWatermark, Existing
<1>6. ASSUME NEW r \in Runs, CommitWatermark(r) PROVE Existing'
  BY <1>0, <1>6 DEF CommitWatermark, Existing
<1> QED BY <1>1, <1>2, <1>3, <1>4, <1>5, <1>6 DEF Common, CommonOf, EndFailed, EndSuccess

\* The window of a running try still ends after every row of its objects.
LEMMA WindowEndCommon == Base /\ Common => WindowEnd'
<1> SUFFICES ASSUME Base, Common PROVE WindowEnd' OBVIOUS
<1> USE RunAssumption
<1>0. /\ TypeOK /\ Existing /\ WindowEnd /\ source \in Nat
      /\ object \in [Runs -> [Shards -> SUBSET Rows]]
      /\ now \in [Runs -> Nat] /\ at \in [Runs -> States]
      /\ (UseQuery' <=> UseQuery)
  BY BaseTypes, OptionsKept DEF Common
<1>1. CASE CommitRow
  <2>1. \A r \in Runs : r * Interval \in Nat BY DEF Runs
  <2> QED BY <1>0, <1>1, <2>1 DEF CommitRow, WindowEnd
<1>2. ASSUME NEW r \in Runs, StartTry(r) PROVE WindowEnd'
  BY <1>0, <1>2 DEF StartTry, WindowEnd
<1>3. ASSUME NEW r \in Runs, NEW state \in {"failed", "success"}, EndTry(r, state)
      PROVE  WindowEnd'
  BY <1>0, <1>3 DEF EndTry, WindowEnd, Active
<1>4. ASSUME NEW r \in Runs, PullWatermark(r) PROVE WindowEnd'
  BY <1>0, <1>4 DEF PullWatermark, WindowEnd, Active
<1>5. ASSUME NEW r \in Runs, ComputeWatermark(r) PROVE WindowEnd'
  <2>1. at' = [at EXCEPT ![r] = "shards"] /\ UNCHANGED <<source, object>>
    BY <1>5 DEF ComputeWatermark
  <2> DEFINE Mark == IF ~UseQuery THEN r * Interval
                     ELSE IF source = 0 THEN prev[r] ELSE source
  <2>2. now' = [now EXCEPT ![r] = Mark] BY <1>5 DEF ComputeWatermark
  <2>3. now'[r] = Mark BY <1>0, <2>2
  <2>4. \A p \in Runs : p # r => now'[p] = now[p] BY <1>0, <2>2
  <2>5. \A s \in Shards : \A x \in object[r][s] : x <= Mark
    <3>1. \A s \in Shards : \A x \in object[r][s] : x >= 1 /\ x <= source /\ x \in Nat
      BY <1>0 DEF Existing, Rows
    <3>2. CASE UseQuery
      <4>1. Mark = IF source = 0 THEN prev[r] ELSE source BY <3>2
      <4> HIDE DEF Mark
      <4> QED BY <1>0, <3>1, <4>1
    <3>3. CASE ~UseQuery BY <1>0, <3>3 DEF WindowEnd
    <3> QED BY <3>2, <3>3
  <2>6. ~UseQuery => Mark = r * Interval OBVIOUS
  <2>7. at[r] \in Active BY <1>5 DEF ComputeWatermark, Active
  <2> HIDE DEF Mark
  <2>8. SUFFICES ASSUME NEW p \in Runs
        PROVE  /\ at'[p] = "shards" => \A s \in Shards : \A x \in object[p][s] : x <= now'[p]
               /\ ~UseQuery =>
                     /\ at'[p] \in Active => p * Interval <= source
                     /\ at'[p] \in {"shards", "commit", "finish"} => now'[p] = p * Interval
                     /\ \A s \in Shards : \A x \in object[p][s] : x <= p * Interval
    BY <1>0, <2>1 DEF WindowEnd
  <2>9. CASE p = r BY <1>0, <2>1, <2>3, <2>5, <2>6, <2>7, <2>9 DEF WindowEnd
  <2>10. CASE p # r
    <3>1. at'[p] = at[p] /\ now'[p] = now[p] BY <1>0, <2>1, <2>4, <2>10
    <3> QED BY <1>0, <3>1 DEF WindowEnd
  <2> QED BY <2>9, <2>10
<1>6. ASSUME NEW r \in Runs, CommitWatermark(r) PROVE WindowEnd'
  BY <1>0, <1>6 DEF CommitWatermark, WindowEnd, Active
<1> QED BY <1>1, <1>2, <1>3, <1>4, <1>5, <1>6 DEF Common, CommonOf, EndFailed, EndSuccess

\* The control state keeps saying the same about XCom and the results.
LEMMA StatusCommon == Base /\ Common => Status'
<1> SUFFICES ASSUME Base, Common PROVE Status' OBVIOUS
<1>0. /\ TypeOK /\ Status /\ xcom \in [Runs -> Marks]
      /\ result \in [Runs -> [Shards -> Answers]] /\ at \in [Runs -> States]
  BY BaseTypes
<1>1. CASE CommitRow BY <1>0, <1>1 DEF CommitRow, Status
<1>2. ASSUME NEW r \in Runs, StartTry(r) PROVE Status'
  BY <1>0, <1>2 DEF StartTry, Status
<1>3. ASSUME NEW r \in Runs, NEW state \in {"failed", "success"}, EndTry(r, state)
      PROVE  Status'
  BY <1>0, <1>3 DEF EndTry, Status
<1>4. ASSUME NEW r \in Runs, PullWatermark(r) PROVE Status'
  BY <1>0, <1>4 DEF PullWatermark, Status
<1>5. ASSUME NEW r \in Runs, ComputeWatermark(r) PROVE Status'
  BY <1>0, <1>5 DEF ComputeWatermark, Status
<1>6. ASSUME NEW r \in Runs, CommitWatermark(r) PROVE Status'
  BY <1>0, <1>6 DEF CommitWatermark, Status
<1> QED BY <1>1, <1>2, <1>3, <1>4, <1>5, <1>6 DEF Common, CommonOf, EndFailed, EndSuccess

\* The common steps keep Base.
LEMMA BaseCommon == Base /\ Common => Base'
BY TypeCommon, ExistingCommon, WindowEndCommon, StatusCommon DEF Base

\* After the upload of shard s of run r, that object is what the try selects and
\* every other object is what it was.
LEMMA UploadObject ==
    ASSUME TypeOK, NEW r \in Runs, NEW s \in Shards, UploadShard(r, s)
    PROVE  \A p \in Runs, t \in Shards :
              object'[p][t] = IF p = r /\ t = s THEN Selected(r, s) ELSE object[p][t]
<1>1. object' = [object EXCEPT ![r][s] = Selected(r, s)] BY DEF UploadShard
<1>2. object \in [Runs -> [Shards -> SUBSET Rows]] BY DEF TypeOK
<1> QED BY <1>1, <1>2

\* The steps of the shards keep Base: what they upload is in the window.
LEMMA BaseShard ==
    ASSUME Base, options' = options, NEW r \in Runs, NEW s \in Shards, ShardStep(r, s)
    PROVE  Base'
<1>0. /\ TypeOK /\ Existing /\ WindowEnd /\ Status /\ source \in Nat
      /\ now \in [Runs -> Nat] /\ result \in [Runs -> [Shards -> Answers]]
      /\ (UseQuery' <=> UseQuery)
  BY BaseTypes, OptionsKept
<1>1. TypeOK' BY <1>0, TypeShard
<1>2. at[r] = "shards" /\ UNCHANGED <<source, at, prev, now, xcom>>
  BY DEF ShardStep, SkipShard, EmptyShard, UploadShard, ShardFrame
<1>3. Status'
  <2>1. \A p \in Runs : p # r => result'[p] = result[p]
    BY <1>0 DEF ShardStep, SkipShard, EmptyShard, UploadShard
  <2> QED BY <1>0, <1>2, <2>1 DEF Status
<1>4. Existing' /\ WindowEnd'
  <2>1. CASE object' = object BY <1>0, <1>2, <2>1 DEF Existing, WindowEnd
  <2>2. CASE UploadShard(r, s)
    <3>1. \A x \in Selected(r, s) : x <= source /\ x <= now[r] BY DEF Selected
    <3>2. \A p \in Runs, t \in Shards :
             object'[p][t] = IF p = r /\ t = s THEN Selected(r, s) ELSE object[p][t]
      BY <1>0, <2>2, UploadObject
    <3>3. Existing' BY <1>0, <1>2, <3>1, <3>2 DEF Existing
    <3>4. WindowEnd' BY <1>0, <1>2, <3>1, <3>2 DEF WindowEnd
    <3> QED BY <3>3, <3>4
  <2> QED BY <2>1, <2>2 DEF ShardStep, SkipShard, EmptyShard
<1> QED BY <1>1, <1>3, <1>4 DEF Base

\* So does the manifest.
LEMMA BaseManifest ==
    ASSUME Base, options' = options, NEW r \in Runs, WriteManifest(r)
    PROVE  Base'
<1>0. /\ TypeOK /\ Existing /\ WindowEnd /\ Status /\ at \in [Runs -> States]
      /\ (UseQuery' <=> UseQuery)
  BY BaseTypes, OptionsKept
<1>1. TypeOK' BY <1>0, TypeManifest
<1>2. Existing' BY <1>0 DEF WriteManifest, Existing
<1>3. WindowEnd' BY <1>0 DEF WriteManifest, WindowEnd, Active
<1>4. Status' BY <1>0 DEF WriteManifest, Status
<1> QED BY <1>1, <1>2, <1>3, <1>4 DEF Base

\* A step that changes nothing.
LEMMA BaseStutter == Base /\ UNCHANGED vars => Base'
<1> SUFFICES ASSUME Base, UNCHANGED vars PROVE Base' OBVIOUS
<1>1. UseQuery' <=> UseQuery BY DEF vars, UseQuery
<1> QED BY <1>1 DEF vars, Base, TypeOK, Existing, WindowEnd, Status

\* Every step keeps Base.
LEMMA BaseStep == Base /\ [Next]_vars => Base'
BY Steps, BaseCommon, BaseShard, BaseManifest, BaseStutter

\* Base holds in every reachable state, with any options.
LEMMA BaseHolds == Spec => []Base
BY BaseInit, BaseStep, PTL DEF Spec

-----------------------------------------------------------------------------
(* ManifestSound.                                                          *)

\* What the answers of the shards, and then the manifest, say of the objects.
AnswersTrue(r) ==
    at[r] \in {"shards", "commit", "finish"} =>
        \A s \in Shards :
            /\ result[r][s] = "uploaded" => object[r][s] = Selected(r, s)
            /\ result[r][s] = "empty" => Selected(r, s) = {}
            /\ result[r][s] = "skipped" => object[r][s] # {}

Described(r) ==
    /\ at[r] \in {"commit", "finish"} => manifest[r] = Listing(r)
    /\ at[r] = "success" =>
          /\ manifest[r] # NoManifest
          /\ \A s \in Shards : manifest[r][s] \in {{}, object[r][s]}

Recorded == \A r \in Runs : AnswersTrue(r) /\ Described(r)

\* A manifest that was written is not the manifest that is not there.
LEMMA WrittenManifest ==
    \A f \in [Shards -> SUBSET Rows] : f # NoManifest
<1>1. 1 \in Shards BY RunAssumption DEF Shards
<1> QED BY <1>1 DEF NoManifest

\* Rows that arrive later are not in a window that has been computed.
LEMMA SelectedKept ==
    ASSUME Base, NEW p \in Runs, NEW s \in Shards,
           prev'[p] = prev[p], now'[p] = now[p], source' = source \/ CommitRow
    PROVE  Selected(p, s)' = Selected(p, s)
<1>1. now[p] <= source /\ now[p] \in Nat /\ prev[p] \in Nat /\ source \in Nat
  BY BaseTypes DEF Existing
<1>2. source' = source \/ source' = source + 1 BY DEF CommitRow
<1>3. \A x \in (prev[p] + 1)..now[p] : x <= source' /\ x <= source BY <1>1, <1>2
<1> QED BY <1>3 DEF Selected

\* A run whose try does not move keeps what is recorded of it.
LEMMA RecordedFrame ==
    ASSUME Base, Recorded, NEW p \in Runs,
           at'[p] = at[p], prev'[p] = prev[p], now'[p] = now[p], result'[p] = result[p],
           object'[p] = object[p], manifest'[p] = manifest[p],
           source' = source \/ CommitRow
    PROVE  AnswersTrue(p)' /\ Described(p)'
<1>1. \A s \in Shards : Selected(p, s)' = Selected(p, s) BY SelectedKept
<1> QED BY <1>1 DEF Recorded, AnswersTrue, Described, Listing

\* The common steps keep it: a try starts without answers and ends with its
\* manifest.
LEMMA RecordedCommon ==
    ASSUME Base, Recorded, Common
    PROVE  Recorded'
<1> SUFFICES ASSUME NEW p \in Runs PROVE AnswersTrue(p)' /\ Described(p)' BY DEF Recorded
<1>0. /\ at \in [Runs -> States] /\ prev \in [Runs -> Nat] /\ now \in [Runs -> Nat]
      /\ result \in [Runs -> [Shards -> Answers]] /\ object \in [Runs -> [Shards -> SUBSET Rows]]
      /\ manifest \in [Runs -> [Shards -> SUBSET Rows] \cup {NoManifest}]
      /\ Status /\ AnswersTrue(p) /\ Described(p)
  BY BaseTypes DEF Recorded, TypeOK
<1>1. CASE CommitRow BY <1>1, RecordedFrame DEF CommitRow
<1>2. ASSUME NEW r \in Runs, CommonOf(r), p # r PROVE AnswersTrue(p)' /\ Described(p)'
  BY <1>0, <1>2, RecordedFrame
     DEF CommonOf, StartTry, EndFailed, EndSuccess, EndTry, PullWatermark, ComputeWatermark,
         CommitWatermark
<1>3. CASE StartTry(p)
  BY <1>0, <1>3 DEF StartTry, AnswersTrue, Described
<1>4. CASE EndFailed(p)
  BY <1>0, <1>4 DEF EndFailed, EndTry, AnswersTrue, Described
<1>5. CASE EndSuccess(p)
  <2>1. at[p] = "finish" /\ at'[p] = "success" /\ UNCHANGED <<object, manifest>>
    BY <1>0, <1>5 DEF EndSuccess, EndTry
  <2>2. manifest[p] = Listing(p) BY <1>0, <2>1 DEF Described
  <2>3. manifest[p] # NoManifest
    <3>1. manifest[p] \in [Shards -> SUBSET Rows] BY <1>0, <2>2 DEF Listing
    <3> QED BY <3>1, WrittenManifest
  <2>4. \A s \in Shards : manifest[p][s] \in {{}, object[p][s]} BY <2>2 DEF Listing
  <2> QED BY <2>1, <2>3, <2>4 DEF AnswersTrue, Described
<1>6. CASE PullWatermark(p)
  BY <1>0, <1>6 DEF PullWatermark, AnswersTrue, Described
<1>7. CASE ComputeWatermark(p)
  <2>1. at[p] = "query" /\ at'[p] = "shards" /\ result' = result
    BY <1>0, <1>7 DEF ComputeWatermark
  <2>2. \A s \in Shards : result'[p][s] = "none" BY <1>0, <2>1 DEF Status, NoResults
  <2> QED BY <2>1, <2>2 DEF AnswersTrue, Described
<1>8. CASE CommitWatermark(p)
  <2>1. /\ at[p] = "commit" /\ at'[p] = "finish"
        /\ UNCHANGED <<source, prev, now, result, object, manifest>>
    BY <1>0, <1>8 DEF CommitWatermark
  <2>2. \A s \in Shards : Selected(p, s)' = Selected(p, s) BY <2>1, SelectedKept
  <2> QED BY <1>0, <2>1, <2>2 DEF AnswersTrue, Described, Listing
<1> QED BY <1>1, <1>2, <1>3, <1>4, <1>5, <1>6, <1>7, <1>8 DEF Common, CommonOf

\* The step of a shard answers for what it has found or uploaded.
LEMMA RecordedShard ==
    ASSUME Base, Recorded, NEW r \in Runs, NEW s \in Shards, ShardStep(r, s)
    PROVE  Recorded'
<1> SUFFICES ASSUME NEW p \in Runs PROVE AnswersTrue(p)' /\ Described(p)' BY DEF Recorded
<1>0. /\ TypeOK /\ result \in [Runs -> [Shards -> Answers]]
      /\ object \in [Runs -> [Shards -> SUBSET Rows]]
  BY BaseTypes
<1>1. /\ at[r] = "shards" /\ result[r][s] = "none"
      /\ UNCHANGED <<source, at, prev, now, manifest>>
  BY DEF ShardStep, SkipShard, EmptyShard, UploadShard, ShardFrame
<1>2. CASE p # r
  BY <1>0, <1>1, <1>2, RecordedFrame DEF ShardStep, SkipShard, EmptyShard, UploadShard
<1>3. CASE p = r
  <2>1. \A t \in Shards : Selected(p, t)' = Selected(p, t) BY <1>1, SelectedKept
  <2>2. ASSUME NEW t \in Shards, t # s
        PROVE  result'[p][t] = result[p][t] /\ object'[p][t] = object[p][t]
    BY <1>0, <1>3, <2>2 DEF ShardStep, SkipShard, EmptyShard, UploadShard
  <2>3. /\ result'[p][s] = "uploaded" => object'[p][s] = Selected(p, s)
        /\ result'[p][s] = "empty" => Selected(p, s) = {}
        /\ result'[p][s] = "skipped" => object'[p][s] # {}
    BY <1>0, <1>1, <1>3 DEF ShardStep, SkipShard, EmptyShard, UploadShard
  <2>4. AnswersTrue(p)' BY <1>1, <1>3, <2>1, <2>2, <2>3 DEF Recorded, AnswersTrue
  <2> QED BY <1>1, <1>3, <2>4 DEF Described
<1> QED BY <1>2, <1>3

\* The manifest says what the objects are.
LEMMA RecordedManifest ==
    ASSUME Base, Recorded, NEW r \in Runs, WriteManifest(r)
    PROVE  Recorded'
<1> SUFFICES ASSUME NEW p \in Runs PROVE AnswersTrue(p)' /\ Described(p)' BY DEF Recorded
<1>0. /\ at \in [Runs -> States]
      /\ manifest \in [Runs -> [Shards -> SUBSET Rows] \cup {NoManifest}]
  BY BaseTypes DEF TypeOK
<1>1. UNCHANGED <<source, prev, now, result, object>> BY DEF WriteManifest
<1>2. CASE p # r BY <1>0, <1>1, <1>2, RecordedFrame DEF WriteManifest
<1>3. CASE p = r
  <2>1. \A t \in Shards : Selected(p, t)' = Selected(p, t) BY <1>1, SelectedKept
  <2>2. /\ at[p] = "shards" /\ at'[p] \in {"commit", "failing"}
        /\ manifest'[p] = Listing(p)
    BY <1>0, <1>3 DEF WriteManifest
  <2> QED BY <1>1, <2>1, <2>2 DEF Recorded, AnswersTrue, Described, Listing
<1> QED BY <1>2, <1>3

\* Every step keeps it.
LEMMA RecordedStep == Base /\ Recorded /\ [Next]_vars => Recorded'
<1> SUFFICES ASSUME Base, Recorded, [Next]_vars PROVE Recorded' OBVIOUS
<1>1. CASE UNCHANGED vars BY <1>1, RecordedFrame DEF vars, Recorded
<1> QED BY <1>1, Steps, RecordedCommon, RecordedShard, RecordedManifest

LEMMA RecordedHolds == Spec => [](Base /\ Recorded)
<1>1. Init => Base /\ Recorded
  BY BaseInit DEF Init, Recorded, AnswersTrue, Described
<1> QED BY <1>1, BaseStep, RecordedStep, PTL DEF Spec

\* Whatever the options are and whatever earlier tries have left: when the watermark
\* is about to be pushed, the manifest lists every row of the window, or for a skipped
\* shard those of its object, and a finished run lists what is in its objects
\* (_write_manifest).
THEOREM ManifestsAreSound == Spec => []ManifestSound
<1>1. Base /\ Recorded => ManifestSound
  <2> SUFFICES ASSUME Base, Recorded, NEW r \in Runs,
                      at[r] \in {"commit", "finish", "success"}
               PROVE  /\ manifest[r] # NoManifest
                      /\ \A s \in Shards :
                            IF at[r] = "success" THEN manifest[r][s] \in {{}, object[r][s]}
                            ELSE manifest[r][s] = IF result[r][s] = "skipped"
                                                  THEN object[r][s] ELSE Selected(r, s)
    BY DEF ManifestSound
  <2>1. CASE at[r] = "success" BY <2>1 DEF Recorded, Described
  <2>2. CASE at[r] \in {"commit", "finish"}
    <3>1. manifest[r] = Listing(r) BY <2>2 DEF Recorded, Described
    <3>2. \A s \in Shards : result[r][s] \in {"uploaded", "empty", "skipped"}
      BY <2>2, BaseTypes DEF Status, Answers
    <3>3. manifest[r] # NoManifest
      <4>1. manifest[r] \in [Shards -> SUBSET Rows] BY <3>1, BaseTypes DEF Listing
      <4> QED BY <4>1, WrittenManifest
    <3>4. ASSUME NEW s \in Shards
          PROVE  manifest[r][s] = IF result[r][s] = "skipped" THEN object[r][s]
                                                             ELSE Selected(r, s)
      <4>1. AnswersTrue(r) BY DEF Recorded
      <4> QED BY <2>2, <3>1, <3>2, <4>1 DEF AnswersTrue, Listing
    <3> QED BY <2>2, <3>3, <3>4
  <2> QED BY <2>1, <2>2
<1> QED BY <1>1, RecordedHolds, PTL

-----------------------------------------------------------------------------
(* NothingLost.                                                            *)

\* With skip_if_exists the watermark is a template.
Compatible == SkipIfExists => ~UseQuery

\* Earlier dates cover the rows before a running window, the shards that have
\* answered cover the window, and an object that may be skipped covers its own.
Coverage ==
    \A r \in Runs :
        /\ at[r] \in {"query", "shards"} => Covered(r - 1, prev[r])
        /\ \A s \in Shards :
              /\ at[r] \in {"shards", "commit"} /\ result[r][s] # "none"
                     => ShardCovered(r, s, now[r])
              /\ SkipIfExists /\ object[r][s] # {} => ShardCovered(r, s, r * Interval)

Inv == Base /\ Compatible /\ Coverage /\ NothingLost

\* The types that Inv fixes, in the form that the steps below use.
LEMMA InvTypes ==
    ASSUME Inv
    PROVE  /\ TypeOK /\ Existing /\ WindowEnd /\ Status /\ Coverage /\ NothingLost /\ Compatible
           /\ object \in [Runs -> [Shards -> SUBSET Rows]] /\ source \in Nat
           /\ result \in [Runs -> [Shards -> Answers]]
           /\ prev \in [Runs -> Nat] /\ now \in [Runs -> Nat] /\ xcom \in [Runs -> Marks]
           /\ at \in [Runs -> States]
BY BaseTypes DEF Inv

\* An upload leaves every covered row covered: the rows of the old object are
\* in the new window or before it, where earlier dates have them.
LEMMA UploadKeepsCover ==
    ASSUME Inv, NEW r \in Runs, NEW s \in Shards, UploadShard(r, s),
           NEW q \in 0..NumRuns, NEW t \in Shards, NEW w \in Int,
           ShardCovered(q, t, w)
    PROVE  ShardCovered(q, t, w)'
<1> USE RunAssumption
<1> SUFFICES ASSUME NEW x \in 1..w, ShardOf(x) = t
             PROVE  \E p \in 1..q : x \in object'[p][t]
  BY DEF ShardCovered
<1>1. PICK p \in 1..q : x \in object[p][t] BY DEF ShardCovered
<1>2. \A a \in Runs, b \in Shards :
         object'[a][b] = IF a = r /\ b = s THEN Selected(r, s) ELSE object[a][b]
  BY UploadObject, InvTypes
<1>3. p \in Runs BY DEF Runs
<1>4. CASE p # r \/ t # s BY <1>1, <1>2, <1>3, <1>4
<1>5. CASE p = r /\ t = s
  <2>1. at[r] = "shards" BY DEF UploadShard
  <2>2. x <= now[r] /\ x <= source
    BY <1>1, <1>5, <2>1, InvTypes DEF WindowEnd, Existing
  <2>3. prev[r] \in Nat /\ now[r] \in Nat /\ x \in Nat BY InvTypes
  <2>4. CASE prev[r] < x
    <3>1. x \in Selected(r, s) BY <1>5, <2>2, <2>3, <2>4 DEF Selected
    <3> QED BY <1>2, <1>3, <1>5, <3>1
  <2>5. CASE x <= prev[r]
    <3>1. ShardCovered(r - 1, t, prev[r]) BY <2>1 DEF Inv, Coverage, Covered
    <3>2. PICK a \in 1..(r - 1) : x \in object[a][t] BY <2>3, <2>5, <3>1 DEF ShardCovered
    <3>3. a \in Runs /\ a # r /\ a \in 1..q BY <1>5 DEF Runs
    <3> QED BY <1>2, <3>2, <3>3
  <2> QED BY <2>3, <2>4, <2>5
<1> QED BY <1>4, <1>5

\* Every step leaves every covered row covered.
LEMMA StepKeepsCover ==
    ASSUME Inv, [Next]_vars,
           NEW q \in 0..NumRuns, NEW t \in Shards, NEW w \in Int, ShardCovered(q, t, w)
    PROVE  ShardCovered(q, t, w)'
<1>1. CASE \E r \in Runs, s \in Shards : UploadShard(r, s) BY <1>1, UploadKeepsCover
<1>2. CASE ~ \E r \in Runs, s \in Shards : UploadShard(r, s)
  <2>1. object' = object
    BY <1>2, Steps DEF vars, Common, CommonOf, CommitRow, StartTry, EndFailed, EndSuccess,
       EndTry, PullWatermark, ComputeWatermark, CommitWatermark, WriteManifest, ShardStep,
       SkipShard, EmptyShard
  <2> QED BY <2>1 DEF ShardCovered
<1> QED BY <1>1, <1>2

\* A shard that has uploaded what it selects, or selects nothing, is covered up to
\* the end of the window.
LEMMA AnswerCovers ==
    ASSUME Inv, NEW r \in Runs, NEW s \in Shards,
           UploadShard(r, s) \/ EmptyShard(r, s)
    PROVE  ShardCovered(r, s, now[r])'
<1> USE RunAssumption
<1>1. at[r] = "shards" /\ now' = now BY DEF UploadShard, EmptyShard, ShardFrame
<1> SUFFICES ASSUME NEW x \in 1..now[r], ShardOf(x) = s
             PROVE  \E p \in 1..r : x \in object'[p][s]
  BY <1>1 DEF ShardCovered
<1>2. prev[r] \in Nat /\ now[r] \in Nat /\ x \in Nat /\ x <= source /\ source \in Nat
  BY InvTypes DEF Existing
<1>3. CASE prev[r] < x
  <2>1. x \in Selected(r, s) BY <1>2, <1>3 DEF Selected
  <2>2. UploadShard(r, s) BY <2>1 DEF EmptyShard
  <2>3. x \in object'[r][s] BY <2>1, <2>2, UploadObject, InvTypes
  <2> QED BY <2>3 DEF Runs
<1>4. CASE x <= prev[r]
  <2>1. ShardCovered(r - 1, s, prev[r]) BY <1>1 DEF Inv, Coverage, Covered
  <2>2. PICK a \in 1..(r - 1) : x \in object[a][s] BY <1>2, <1>4, <2>1 DEF ShardCovered
  <2>3. a \in Runs /\ a # r /\ a \in 1..r BY DEF Runs
  <2>4. object'[a][s] = object[a][s]
    <3>1. CASE EmptyShard(r, s) BY <3>1 DEF EmptyShard
    <3>2. CASE UploadShard(r, s) BY <3>2, <2>3, UploadObject, InvTypes
    <3> QED BY <3>1, <3>2
  <2> QED BY <2>2, <2>3, <2>4
<1> QED BY <1>2, <1>3, <1>4

\* The rows up to w of shard s are in the given objects of the runs up to q.
CoveredIn(objects, q, s, w) ==
    \A x \in 1..w : ShardOf(x) = s => \E r \in 1..q : x \in objects[r][s]

\* StepKeepsCover, in a form that can be used with what a variable names now.
LEMMA CoverKept ==
    Inv /\ [Next]_vars =>
        \A q \in 0..NumRuns, t \in Shards, w \in Int :
            CoveredIn(object, q, t, w) => CoveredIn(object', q, t, w)
BY StepKeepsCover DEF ShardCovered, CoveredIn

\* What a step has to establish for Coverage, run by run.
CoverageOf(r, a, p, n, res, obj) ==
    /\ a[r] \in {"query", "shards"} => \A t \in Shards : CoveredIn(obj, r - 1, t, p[r])
    /\ \A t \in Shards :
          /\ a[r] \in {"shards", "commit"} /\ res[r][t] # "none"
                 => CoveredIn(obj, r, t, n[r])
          /\ SkipIfExists /\ obj[r][t] # {} => CoveredIn(obj, r, t, r * Interval)

\* Coverage says that of every run.
LEMMA CoverageIsOf ==
    /\ Coverage <=> \A r \in Runs : CoverageOf(r, at, prev, now, result, object)
    /\ options' = options =>
          (Coverage' <=> \A r \in Runs : CoverageOf(r, at', prev', now', result', object'))
BY OptionsKept DEF Coverage, CoverageOf, Covered, ShardCovered, CoveredIn

\* A run whose try does not move keeps its coverage.
LEMMA CoverageFrame ==
    ASSUME Inv, [Next]_vars, NEW p \in Runs,
           at'[p] = at[p], prev'[p] = prev[p], now'[p] = now[p],
           result'[p] = result[p], object'[p] = object[p]
    PROVE  CoverageOf(p, at', prev', now', result', object')
<1> USE RunAssumption
<1>1. p \in 0..NumRuns /\ p - 1 \in 0..NumRuns /\ p * Interval \in Int BY DEF Runs
<1>2. prev[p] \in Int /\ now[p] \in Int BY InvTypes
<1>3. CoverageOf(p, at, prev, now, result, object) BY CoverageIsOf DEF Inv
<1> QED BY <1>1, <1>2, <1>3, CoverKept DEF CoverageOf

\* A step of the shards keeps the coverage of their run, and of the new answer.
LEMMA CoverageShard ==
    ASSUME Inv, [Next]_vars, NEW r \in Runs, NEW s \in Shards,
           ShardStep(r, s)
    PROVE  CoverageOf(r, at', prev', now', result', object')
<1> USE RunAssumption
<1>1. /\ r \in 0..NumRuns /\ r - 1 \in 0..NumRuns /\ r * Interval \in Int
      /\ prev[r] \in Int /\ now[r] \in Int
      /\ result \in [Runs -> [Shards -> Answers]]
      /\ TypeOK
  BY InvTypes DEF Runs
<1>2. at[r] = "shards" /\ UNCHANGED <<at, prev, now>>
  BY DEF ShardStep, SkipShard, EmptyShard, UploadShard, ShardFrame
<1>3. CoverageOf(r, at, prev, now, result, object) BY CoverageIsOf DEF Inv
<1>4. SkipIfExists => now[r] = r * Interval BY <1>2, InvTypes DEF WindowEnd, Compatible
<1>5. \A t \in Shards : CoveredIn(object', r - 1, t, prev[r])
  BY <1>1, <1>2, <1>3, CoverKept DEF CoverageOf
<1>6. ASSUME NEW t \in Shards, t # s
      PROVE  /\ result'[r][t] # "none" => CoveredIn(object', r, t, now[r])
             /\ SkipIfExists /\ object'[r][t] # {} => CoveredIn(object', r, t, r * Interval)
  <2>1. result'[r][t] = result[r][t]
    BY <1>1, <1>6 DEF ShardStep, SkipShard, EmptyShard, UploadShard
  <2>2. object'[r][t] = object[r][t]
    <3>1. CASE UploadShard(r, s) BY <1>1, <1>6, <3>1, UploadObject
    <3>2. CASE SkipShard(r, s) \/ EmptyShard(r, s) BY <3>2 DEF SkipShard, EmptyShard
    <3> QED BY <3>1, <3>2 DEF ShardStep
  <2> QED BY <1>1, <1>2, <1>3, <2>1, <2>2, CoverKept DEF CoverageOf
<1>7. CoveredIn(object', r, s, now[r])
  <2>1. CASE SkipShard(r, s)
    <3>1. CoveredIn(object, r, s, r * Interval)
      BY <1>3, <2>1 DEF SkipShard, CoverageOf
    <3> QED BY <1>1, <1>4, <2>1, <3>1, CoverKept DEF SkipShard
  <2>2. CASE UploadShard(r, s) \/ EmptyShard(r, s)
    BY <1>2, <2>2, AnswerCovers DEF ShardCovered, CoveredIn
  <2> QED BY <2>1, <2>2 DEF ShardStep
<1>8. \A t \in Shards :
         /\ result'[r][t] # "none" => CoveredIn(object', r, t, now[r])
         /\ SkipIfExists /\ object'[r][t] # {} => CoveredIn(object', r, t, r * Interval)
  BY <1>4, <1>6, <1>7
<1> QED BY <1>2, <1>5, <1>8 DEF CoverageOf

\* Every step keeps what the dates and the shards of the running tries cover.
LEMMA CoverageStep ==
    ASSUME Inv, [Next]_vars
    PROVE  Coverage'
<1> USE RunAssumption
<1>0. /\ at \in [Runs -> States]
      /\ prev \in [Runs -> Nat] /\ now \in [Runs -> Nat] /\ xcom \in [Runs -> Marks]
      /\ result \in [Runs -> [Shards -> Answers]]
      /\ object \in [Runs -> [Shards -> SUBSET Rows]]
  BY InvTypes
<1> SUFFICES ASSUME NEW p \in Runs
             PROVE  CoverageOf(p, at', prev', now', result', object')
  BY CoverageIsOf, Steps
<1>a. /\ p \in 0..NumRuns /\ p - 1 \in 0..NumRuns /\ p * Interval \in Int
      /\ prev[p] \in Int /\ now[p] \in Int
  BY <1>0 DEF Runs
<1>b. CoverageOf(p, at, prev, now, result, object) BY CoverageIsOf DEF Inv
<1>c. \A t \in Shards : SkipIfExists /\ object[p][t] # {}
                            => CoveredIn(object', p, t, p * Interval)
  BY <1>a, <1>b, CoverKept DEF CoverageOf
<1>1. CASE UNCHANGED vars BY <1>1, CoverageFrame DEF vars
<1>2. CASE CommitRow BY <1>2, CoverageFrame DEF CommitRow
<1>3. ASSUME NEW r \in Runs, StartTry(r)
      PROVE  CoverageOf(p, at', prev', now', result', object')
  <2>1. CASE p # r BY <1>0, <1>3, <2>1, CoverageFrame DEF StartTry
  <2>2. CASE p = r
    <3>1. at'[p] = "prepare" /\ object' = object BY <1>0, <1>3, <2>2 DEF StartTry
    <3> QED BY <1>c, <3>1 DEF CoverageOf
  <2> QED BY <2>1, <2>2
<1>4. ASSUME NEW r \in Runs, NEW state \in {"failed", "success"}, EndTry(r, state)
      PROVE  CoverageOf(p, at', prev', now', result', object')
  <2>1. CASE p # r BY <1>0, <1>4, <2>1, CoverageFrame DEF EndTry
  <2>2. CASE p = r
    <3>1. at'[p] \in {"failed", "success"} /\ object' = object BY <1>0, <1>4, <2>2 DEF EndTry
    <3> QED BY <1>c, <3>1 DEF CoverageOf
  <2> QED BY <2>1, <2>2
<1>5. ASSUME NEW r \in Runs, PullWatermark(r)
      PROVE  CoverageOf(p, at', prev', now', result', object')
  <2>1. CASE p # r BY <1>0, <1>5, <2>1, CoverageFrame DEF PullWatermark
  <2>2. CASE p = r
    <3>1. at'[p] = "query" /\ object' = object BY <1>0, <1>5, <2>2 DEF PullWatermark
    <3>2. \A t \in Shards : CoveredIn(object, p - 1, t, prev'[p])
      <4>1. CASE prev'[p] = DefaultValue BY <4>1 DEF CoveredIn, DefaultValue
      <4>2. ASSUME NEW q \in 1..(p - 1), xcom[q] # NoMark, prev'[p] = xcom[q],
                   NEW t \in Shards
            PROVE  CoveredIn(object, p - 1, t, prev'[p])
        <5>1. q \in Runs BY DEF Runs
        <5>2. CoveredIn(object, q, t, xcom[q])
          BY <4>2, <5>1 DEF Inv, NothingLost, Covered, ShardCovered, CoveredIn
        <5>3. 1..q \in SUBSET (1..(p - 1)) BY <1>a
        <5> QED BY <4>2, <5>2, <5>3 DEF CoveredIn
      <4> QED BY <1>5, <2>2, <4>1, <4>2, Pulled DEF Inv
    <3> QED BY <1>c, <3>1, <3>2 DEF CoverageOf
  <2> QED BY <2>1, <2>2
<1>6. ASSUME NEW r \in Runs, ComputeWatermark(r)
      PROVE  CoverageOf(p, at', prev', now', result', object')
  <2>1. CASE p # r BY <1>0, <1>6, <2>1, CoverageFrame DEF ComputeWatermark
  <2>2. CASE p = r
    <3>1. /\ at[p] = "query" /\ at'[p] = "shards"
          /\ object' = object /\ prev' = prev /\ result' = result
      BY <1>0, <1>6, <2>2 DEF ComputeWatermark
    <3>2. \A t \in Shards : result[p][t] = "none" BY <3>1, InvTypes DEF Status, NoResults
    <3> QED BY <1>b, <1>c, <3>1, <3>2 DEF CoverageOf
  <2> QED BY <2>1, <2>2
<1>7. ASSUME NEW r \in Runs, NEW s \in Shards, ShardStep(r, s)
      PROVE  CoverageOf(p, at', prev', now', result', object')
  <2>1. CASE p # r
    <3>1. UNCHANGED <<at, prev, now>> /\ result'[p] = result[p] /\ object'[p] = object[p]
      BY <1>0, <1>7, <2>1 DEF ShardStep, SkipShard, EmptyShard, UploadShard, ShardFrame
    <3> QED BY <3>1, CoverageFrame
  <2>2. CASE p = r BY <1>7, <2>2, CoverageShard
  <2> QED BY <2>1, <2>2
<1>8. ASSUME NEW r \in Runs, WriteManifest(r) \/ CommitWatermark(r)
      PROVE  CoverageOf(p, at', prev', now', result', object')
  <2>1. CASE p # r BY <1>0, <1>8, <2>1, CoverageFrame DEF WriteManifest, CommitWatermark
  <2>2. CASE p = r
    <3>1. /\ at[p] \in {"shards", "commit"} /\ at'[p] \in {"commit", "failing", "finish"}
          /\ UNCHANGED <<prev, now, result, object>>
      BY <1>0, <1>8, <2>2 DEF WriteManifest, CommitWatermark
    <3> QED BY <1>b, <1>c, <3>1 DEF CoverageOf
  <2> QED BY <2>1, <2>2
<1> QED BY <1>1, <1>2, <1>3, <1>4, <1>5, <1>6, <1>7, <1>8, Steps
        DEF Common, CommonOf, EndFailed, EndSuccess

\* No step loses a row: a watermark is pushed when every shard has answered.
LEMMA NothingLostStep == Inv /\ [Next]_vars => NothingLost'
<1> SUFFICES ASSUME Inv, [Next]_vars, NEW p \in Runs, xcom'[p] # NoMark, NEW t \in Shards
             PROVE  CoveredIn(object', p, t, xcom'[p])
  BY DEF NothingLost, Covered, ShardCovered, CoveredIn
<1> USE RunAssumption
<1>0. /\ xcom \in [Runs -> Marks] /\ now \in [Runs -> Nat] /\ p \in 0..NumRuns
  BY InvTypes DEF Runs
<1>1. CASE xcom'[p] = xcom[p]
  <2>1. CoveredIn(object, p, t, xcom[p])
    BY <1>1 DEF Inv, NothingLost, Covered, ShardCovered, CoveredIn
  <2>2. xcom[p] \in Int BY <1>0 DEF Marks, NoMark
  <2> QED BY <1>0, <1>1, <2>1, <2>2, CoverKept
<1>2. CASE xcom'[p] # xcom[p]
  <2>1. CommitWatermark(p) /\ xcom'[p] = now[p]
    BY <1>0, <1>2, Steps DEF vars, Common, CommonOf, CommitRow, StartTry, EndFailed,
       EndSuccess, EndTry, PullWatermark, ComputeWatermark, CommitWatermark, WriteManifest,
       ShardStep, SkipShard, EmptyShard, UploadShard, ShardFrame
  <2>2. at[p] = "commit" /\ object' = object BY <2>1 DEF CommitWatermark
  <2>3. result[p][t] # "none" BY <2>2, InvTypes DEF Status
  <2>4. CoveredIn(object, p, t, now[p]) BY <2>2, <2>3, CoverageIsOf DEF Inv, CoverageOf
  <2> QED BY <2>1, <2>2, <2>4
<1> QED BY <1>1, <1>2

\* The initial state: nothing has been exported.
LEMMA InvInit == Init /\ Compatible => Inv
<1> SUFFICES ASSUME Init, Compatible PROVE Inv OBVIOUS
<1>1. Coverage /\ NothingLost
  BY DEF Init, Coverage, NothingLost, Covered, ShardCovered, NoMark
<1> QED BY <1>1, BaseInit DEF Inv

\* Unless skip_if_exists is used with a watermark that moves between two tries, Inv
\* holds in every reachable state.
LEMMA InvHolds == Compatible /\ Spec => []Inv
<1>1. Inv /\ [Next]_vars => Inv'
  <2> SUFFICES ASSUME Inv, [Next]_vars PROVE Inv' OBVIOUS
  <2>1. Base' /\ Coverage' /\ NothingLost' BY BaseStep, CoverageStep, NothingLostStep DEF Inv
  <2>2. Compatible' BY Steps, OptionsKept DEF Inv, Compatible
  <2> QED BY <2>1, <2>2 DEF Inv
<1> QED BY <1>1, InvInit, PTL DEF Spec

\* No row is lost, for any number of runs, shards, rows and tries: every row up to
\* a watermark in XCom is in the store.  Without skip_if_exists always; with it
\* when the watermark of a run is a template.
THEOREM NoRowIsLost == Compatible /\ Spec => []NothingLost
<1>1. Inv => NothingLost BY DEF Inv
<1> QED BY <1>1, InvHolds, PTL

-----------------------------------------------------------------------------
(* CatalogueCovers.                                                        *)

\* Row x is in one of the given manifests of the runs up to q.
InManifest(lists, q, x) == \E p \in 1..q : lists[p] # NoManifest /\ x \in lists[p][ShardOf(x)]

\* The rows up to w are.
InManifests(lists, q, w) == \A x \in 1..w : InManifest(lists, q, x)

\* A manifest lists no row after the window that is to replace it.
ListedRows(r) ==
    manifest[r] # NoManifest =>
        \A s \in Shards : \A x \in manifest[r][s] :
            /\ x <= source
            /\ ~UseQuery => x <= r * Interval
            /\ at[r] = "shards" => x <= now[r]

\* An object that a try may skip has every row of its shard up to the end of the
\* window, or earlier dates list the row: so it was when the object was uploaded.
SkippedListed(r) ==
    SkipIfExists => \A x \in 1..(r * Interval) :
        \/ object[r][ShardOf(x)] = {} \/ x \in object[r][ShardOf(x)]
        \/ InManifest(manifest, r - 1, x)

\* Earlier dates list the rows before a running window, and a manifest that was
\* written lists the window.
CatalogueOf(r) ==
    /\ ListedRows(r)
    /\ SkippedListed(r)
    /\ \A s \in Shards : result[r][s] = "skipped" => SkipIfExists
    /\ at[r] \in {"query", "shards"} => InManifests(manifest, r - 1, prev[r])
    /\ at[r] = "commit" => InManifests(manifest, r, now[r])
    /\ xcom[r] # NoMark => InManifests(manifest, r, xcom[r])

Catalogue == Compatible /\ \A r \in Runs : CatalogueOf(r)

\* Every row belongs to a shard.
LEMMA ShardOfRow == \A x \in Nat : ShardOf(x) \in Shards
BY RunAssumption DEF ShardOf, Shards

\* When every shard has answered, the new manifest lists the rows up to the end of
\* the window that no earlier date lists, and no row after it.
LEMMA WrittenCatalogue ==
    ASSUME Base, Recorded, Catalogue, NEW r \in Runs, WriteManifest(r)
    PROVE  /\ manifest'[r] # NoManifest
           /\ \A p \in Runs : p # r => manifest'[p] = manifest[p]
           /\ \A s \in Shards : \A x \in manifest'[r][s] : x <= source /\ x <= now[r]
           /\ \A x \in 1..now[r] :
                 x \in manifest'[r][ShardOf(x)] \/ InManifest(manifest, r - 1, x)
<1>0. /\ manifest \in [Runs -> [Shards -> SUBSET Rows] \cup {NoManifest}] /\ TypeOK
      /\ result \in [Runs -> [Shards -> Answers]] /\ object \in [Runs -> [Shards -> SUBSET Rows]]
      /\ prev[r] \in Nat /\ now[r] \in Nat /\ source \in Nat /\ now[r] <= source
      /\ Existing /\ WindowEnd /\ AnswersTrue(r) /\ CatalogueOf(r)
  BY BaseTypes DEF TypeOK, Existing, Recorded, Catalogue
<1>1. /\ at[r] = "shards" /\ \A s \in Shards : result[r][s] # "none"
      /\ manifest' = [manifest EXCEPT ![r] = Listing(r)]
  BY DEF WriteManifest
<1>2. manifest'[r] = Listing(r) /\ \A p \in Runs : p # r => manifest'[p] = manifest[p]
  BY <1>0, <1>1
<1>3. manifest'[r] # NoManifest
  <2>1. Listing(r) \in [Shards -> SUBSET Rows] BY <1>0 DEF Listing
  <2> QED BY <1>2, <2>1, WrittenManifest
<1>4. \A s \in Shards : \A x \in manifest'[r][s] : x <= source /\ x <= now[r]
  BY <1>0, <1>1, <1>2 DEF Listing, Existing, WindowEnd
<1>5. ASSUME NEW x \in 1..now[r]
      PROVE  x \in manifest'[r][ShardOf(x)] \/ InManifest(manifest, r - 1, x)
  <2> DEFINE s == ShardOf(x)
  <2>1. s \in Shards /\ x \in Nat BY <1>0, ShardOfRow
  <2>2. CASE result[r][s] = "skipped"
    <3>1. SkipIfExists /\ now[r] = r * Interval
      BY <1>0, <1>1, <2>1, <2>2 DEF CatalogueOf, Catalogue, Compatible, WindowEnd
    <3>2. object[r][s] # {} /\ manifest'[r][s] = object[r][s]
      BY <1>0, <1>1, <1>2, <2>1, <2>2 DEF AnswersTrue, Listing
    <3> QED BY <1>0, <3>1, <3>2 DEF CatalogueOf, SkippedListed
  <2>3. CASE result[r][s] # "skipped"
    <3>1. manifest'[r][s] = Selected(r, s)
      <4>1. result[r][s] \in {"uploaded", "empty"} BY <1>0, <1>1, <2>1, <2>3 DEF Answers
      <4> QED BY <1>0, <1>1, <1>2, <2>1, <4>1 DEF AnswersTrue, Listing
    <3>2. CASE prev[r] < x
      <4>1. x \in Selected(r, s) BY <1>0, <2>1, <3>2 DEF Selected
      <4> QED BY <3>1, <4>1
    <3>3. CASE x <= prev[r] BY <1>0, <1>1, <3>3 DEF CatalogueOf, InManifests
    <3> QED BY <1>0, <2>1, <3>2, <3>3
  <2> QED BY <2>2, <2>3
<1> QED BY <1>2, <1>3, <1>4, <1>5

\* A new manifest leaves every listed row listed: the rows of the old one are in the
\* new one or before its window, where earlier dates list them.
LEMMA ManifestKeepsListed ==
    ASSUME Base, Recorded, Catalogue, NEW r \in Runs, WriteManifest(r),
           NEW q \in 0..NumRuns, NEW x \in Nat \ {0}, InManifest(manifest, q, x)
    PROVE  InManifest(manifest', q, x)
<1> USE RunAssumption
<1>1. PICK p \in 1..q : manifest[p] # NoManifest /\ x \in manifest[p][ShardOf(x)]
  BY DEF InManifest
<1>2. /\ manifest'[r] # NoManifest /\ \A a \in Runs : a # r => manifest'[a] = manifest[a]
      /\ x <= now[r] => x \in manifest'[r][ShardOf(x)] \/ InManifest(manifest, r - 1, x)
  <2>1. now[r] \in Nat BY BaseTypes
  <2> QED BY <2>1, WrittenCatalogue
<1>3. p \in Runs BY DEF Runs
<1>4. CASE p # r BY <1>1, <1>2, <1>3, <1>4 DEF InManifest
<1>5. CASE p = r
  <2>1. x <= now[r]
    <3>1. at[r] = "shards" /\ ShardOf(x) \in Shards BY ShardOfRow DEF WriteManifest
    <3> QED BY <1>1, <1>5, <3>1 DEF Catalogue, CatalogueOf, ListedRows
  <2>2. CASE x \in manifest'[r][ShardOf(x)] BY <1>2, <1>5, <2>2 DEF InManifest
  <2>3. CASE InManifest(manifest, r - 1, x)
    <3>1. PICK a \in 1..(r - 1) : manifest[a] # NoManifest /\ x \in manifest[a][ShardOf(x)]
      BY <2>3 DEF InManifest
    <3>2. a \in Runs /\ a # r /\ a \in 1..q BY <1>5 DEF Runs
    <3> QED BY <1>2, <3>1, <3>2 DEF InManifest
  <2> QED BY <1>2, <2>1, <2>2, <2>3
<1> QED BY <1>4, <1>5

\* Nor does any other step take one away.
LEMMA RowKept ==
    ASSUME Base, Recorded, Catalogue, [Next]_vars,
           NEW q \in 0..NumRuns, NEW x \in Nat \ {0}, InManifest(manifest, q, x)
    PROVE  InManifest(manifest', q, x)
<1>1. CASE \E r \in Runs : WriteManifest(r) BY <1>1, ManifestKeepsListed
<1>2. CASE ~ \E r \in Runs : WriteManifest(r)
  <2>1. manifest' = manifest
    BY <1>2, Steps DEF vars, Common, CommonOf, CommitRow, StartTry, EndFailed, EndSuccess,
       EndTry, PullWatermark, ComputeWatermark, CommitWatermark, ShardStep, SkipShard,
       EmptyShard, UploadShard, ShardFrame
  <2> QED BY <2>1 DEF InManifest
<1> QED BY <1>1, <1>2

LEMMA ListedKept ==
    ASSUME Base, Recorded, Catalogue, [Next]_vars,
           NEW q \in 0..NumRuns, NEW w \in Int, InManifests(manifest, q, w)
    PROVE  InManifests(manifest', q, w)
<1> SUFFICES ASSUME NEW x \in 1..w PROVE InManifest(manifest', q, x) BY DEF InManifests
<1>1. x \in Nat \ {0} /\ InManifest(manifest, q, x) BY DEF InManifests
<1> QED BY <1>1, RowKept

\* The manifest that is written lists the window of its try.
LEMMA WindowListed ==
    ASSUME Base, Recorded, Catalogue, NEW r \in Runs, WriteManifest(r)
    PROVE  InManifests(manifest', r, now[r])
<1> USE RunAssumption
<1> SUFFICES ASSUME NEW x \in 1..now[r] PROVE InManifest(manifest', r, x)
  BY DEF InManifests, WriteManifest
<1>1. /\ manifest'[r] # NoManifest /\ \A a \in Runs : a # r => manifest'[a] = manifest[a]
      /\ x \in manifest'[r][ShardOf(x)] \/ InManifest(manifest, r - 1, x)
  BY WrittenCatalogue
<1>2. CASE x \in manifest'[r][ShardOf(x)]
  <2>1. r \in 1..r BY DEF Runs
  <2> QED BY <1>1, <1>2, <2>1 DEF InManifest
<1>3. CASE InManifest(manifest, r - 1, x)
  <2>1. PICK a \in 1..(r - 1) : manifest[a] # NoManifest /\ x \in manifest[a][ShardOf(x)]
    BY <1>3 DEF InManifest
  <2>2. a \in Runs /\ a # r /\ a \in 1..r BY DEF Runs
  <2> QED BY <1>1, <2>1, <2>2 DEF InManifest
<1> QED BY <1>1, <1>2, <1>3

\* Objects that stay, or are replaced by what a try selects, may be skipped.
LEMMA SkippedKept ==
    ASSUME Base, Recorded, Catalogue, [Next]_vars, NEW p \in Runs,
           \A s \in Shards : object'[p][s] = object[p][s] \/ UploadShard(p, s)
    PROVE  SkippedListed(p)'
<1> USE RunAssumption
<1>0. /\ prev[p] \in Nat /\ now[p] \in Nat /\ source \in Nat /\ p * Interval \in Nat
      /\ p - 1 \in 0..NumRuns /\ WindowEnd /\ CatalogueOf(p) /\ (SkipIfExists' <=> SkipIfExists)
      /\ object \in [Runs -> [Shards -> SUBSET Rows]]
  BY BaseTypes, Steps, OptionsKept DEF Catalogue, Runs
<1> SUFFICES ASSUME SkipIfExists, NEW x \in 1..(p * Interval)
             PROVE  \/ object'[p][ShardOf(x)] = {} \/ x \in object'[p][ShardOf(x)]
                    \/ InManifest(manifest', p - 1, x)
  BY <1>0 DEF SkippedListed, InManifest
<1>1. x \in Nat \ {0} /\ ShardOf(x) \in Shards BY <1>0, ShardOfRow
<1>2. InManifest(manifest, p - 1, x) => InManifest(manifest', p - 1, x)
  BY <1>0, <1>1, RowKept
<1>3. CASE object'[p][ShardOf(x)] = object[p][ShardOf(x)]
  BY <1>0, <1>2, <1>3 DEF CatalogueOf, SkippedListed
<1>4. CASE UploadShard(p, ShardOf(x))
  <2>1. object'[p][ShardOf(x)] = Selected(p, ShardOf(x)) /\ at[p] = "shards"
    BY <1>0, <1>1, <1>4 DEF UploadShard
  <2>2. now[p] = p * Interval /\ p * Interval <= source
    BY <1>0, <2>1 DEF Catalogue, Compatible, WindowEnd, Active
  <2>3. CASE prev[p] < x
    <3>1. x \in Selected(p, ShardOf(x)) BY <1>0, <1>1, <2>2, <2>3 DEF Selected
    <3> QED BY <2>1, <3>1
  <2>4. CASE x <= prev[p]
    BY <1>0, <1>1, <1>2, <2>1, <2>4 DEF CatalogueOf, InManifests
  <2> QED BY <1>0, <1>1, <2>3, <2>4
<1> QED BY <1>1, <1>3, <1>4

\* A run whose try does not move keeps what the manifests say of it.
LEMMA CatalogueFrame ==
    ASSUME Base, Recorded, Catalogue, [Next]_vars, NEW p \in Runs,
           at'[p] = at[p], prev'[p] = prev[p], now'[p] = now[p], result'[p] = result[p],
           object'[p] = object[p], manifest'[p] = manifest[p], xcom'[p] = xcom[p],
           source' = source \/ CommitRow
    PROVE  CatalogueOf(p)'
<1> USE RunAssumption
<1>1. /\ p \in 0..NumRuns /\ p - 1 \in 0..NumRuns /\ prev[p] \in Int /\ now[p] \in Int
      /\ xcom[p] \in Int /\ source \in Int
  BY BaseTypes DEF Runs, Marks, NoMark
<1>2. CatalogueOf(p) BY DEF Catalogue
<1>3. source' = source \/ source' = source + 1 BY DEF CommitRow
<1>4. (UseQuery' <=> UseQuery) /\ (SkipIfExists' <=> SkipIfExists) BY Steps, OptionsKept
<1>5. ListedRows(p)'
  <2>1. manifest[p] # NoManifest => \A s \in Shards : \A x \in manifest[p][s] : x \in Int
    BY BaseTypes DEF TypeOK, Rows
  <2> QED BY <1>1, <1>2, <1>3, <1>4, <2>1 DEF CatalogueOf, ListedRows
<1>6. /\ at[p] \in {"query", "shards"} => InManifests(manifest', p - 1, prev[p])
      /\ at[p] = "commit" => InManifests(manifest', p, now[p])
      /\ xcom[p] # NoMark => InManifests(manifest', p, xcom[p])
  BY <1>1, <1>2, ListedKept DEF CatalogueOf
<1>7. SkippedListed(p)' BY SkippedKept
<1> QED BY <1>2, <1>4, <1>5, <1>6, <1>7 DEF CatalogueOf, InManifests, InManifest

\* The try that moves: it starts from what an earlier date lists.
LEMMA CatalogueCommon ==
    ASSUME Base, Recorded, Catalogue, Common, NEW p \in Runs
    PROVE  CatalogueOf(p)'
<1> USE RunAssumption
<1>0. /\ at \in [Runs -> States] /\ prev \in [Runs -> Nat] /\ now \in [Runs -> Nat]
      /\ result \in [Runs -> [Shards -> Answers]] /\ xcom \in [Runs -> Marks]
      /\ CatalogueOf(p) /\ [Next]_vars
      /\ (UseQuery' <=> UseQuery) /\ (SkipIfExists' <=> SkipIfExists)
  BY BaseTypes, OptionsKept DEF Catalogue, Common, CommonOf, Next, Try
<1>9. object' = object => SkippedListed(p)' BY <1>0, SkippedKept
<1>1. CASE CommitRow BY <1>0, <1>1, CatalogueFrame DEF CommitRow
<1>2. ASSUME NEW r \in Runs, CommonOf(r), p # r PROVE CatalogueOf(p)'
  BY <1>0, <1>2, CatalogueFrame
     DEF CommonOf, StartTry, EndFailed, EndSuccess, EndTry, PullWatermark, ComputeWatermark,
         CommitWatermark
<1>3. CASE StartTry(p)
  <2>1. /\ at'[p] = "prepare" /\ xcom'[p] = NoMark
        /\ UNCHANGED <<source, prev, now, result, object, manifest>>
    BY <1>0, <1>3 DEF StartTry
  <2> QED BY <1>0, <1>9, <2>1 DEF CatalogueOf, ListedRows
<1>4. CASE EndFailed(p) \/ EndSuccess(p)
  <2>1. at'[p] \in {"failed", "success"} /\ result'[p] = NoResults
        /\ UNCHANGED <<source, object, manifest, xcom>>
    BY <1>0, <1>4 DEF EndFailed, EndSuccess, EndTry
  <2>2. \A s \in Shards : result'[p][s] # "skipped" BY <2>1 DEF NoResults
  <2> QED BY <1>0, <1>9, <2>1, <2>2 DEF CatalogueOf, ListedRows, InManifests, InManifest
<1>5. CASE PullWatermark(p)
  <2>1. at'[p] = "query" /\ UNCHANGED <<source, now, result, object, manifest, xcom>>
    BY <1>0, <1>5 DEF PullWatermark
  <2>2. InManifests(manifest, p - 1, prev'[p])
    <3>1. CASE prev'[p] = DefaultValue BY <3>1 DEF InManifests, DefaultValue
    <3>2. ASSUME NEW q \in 1..(p - 1), xcom[q] # NoMark, prev'[p] = xcom[q]
          PROVE  InManifests(manifest, p - 1, prev'[p])
      <4>1. q \in Runs /\ 1..q \in SUBSET (1..(p - 1)) BY DEF Runs
      <4>2. InManifests(manifest, q, xcom[q]) BY <3>2, <4>1 DEF Catalogue, CatalogueOf
      <4> QED BY <3>2, <4>1, <4>2 DEF InManifests, InManifest
    <3> QED BY <1>5, <3>1, <3>2, Pulled
  <2> QED BY <1>0, <1>9, <2>1, <2>2 DEF CatalogueOf, ListedRows, InManifests, InManifest
<1>6. CASE ComputeWatermark(p)
  <2>1. /\ at[p] = "query" /\ at'[p] = "shards"
        /\ UNCHANGED <<source, prev, result, object, manifest, xcom>>
    BY <1>0, <1>6 DEF ComputeWatermark
  <2>2. now'[p] = IF ~UseQuery THEN p * Interval ELSE IF source = 0 THEN prev[p] ELSE source
    BY <1>0, <1>6 DEF ComputeWatermark
  <2>3. ListedRows(p)'
    <3>1. SUFFICES ASSUME manifest[p] # NoManifest, NEW s \in Shards, NEW x \in manifest[p][s]
                   PROVE  x <= source /\ (~UseQuery => x <= p * Interval) /\ x <= now'[p]
      BY <1>0, <2>1 DEF ListedRows
    <3>2. x <= source /\ (~UseQuery => x <= p * Interval)
      BY <1>0, <3>1 DEF CatalogueOf, ListedRows
    <3>3. x \in Nat \ {0} /\ source \in Nat BY <3>1, BaseTypes DEF TypeOK, Rows
    <3> QED BY <2>2, <3>2, <3>3
  <2> QED BY <1>0, <1>9, <2>1, <2>3 DEF CatalogueOf, InManifests, InManifest
<1>7. CASE CommitWatermark(p)
  <2>1. /\ at[p] = "commit" /\ at'[p] = "finish" /\ xcom'[p] \in {xcom[p], now[p]}
        /\ UNCHANGED <<source, prev, now, result, object, manifest>>
    BY <1>0, <1>7 DEF CommitWatermark
  <2> QED BY <1>0, <1>9, <2>1 DEF CatalogueOf, ListedRows, InManifests, InManifest
<1> QED BY <1>1, <1>2, <1>3, <1>4, <1>5, <1>6, <1>7 DEF Common, CommonOf

\* The shards do not touch the manifests.
LEMMA CatalogueShard ==
    ASSUME Base, Recorded, Catalogue, [Next]_vars,
           NEW r \in Runs, NEW t \in Shards, ShardStep(r, t), NEW p \in Runs
    PROVE  CatalogueOf(p)'
<1>0. /\ result \in [Runs -> [Shards -> Answers]] /\ CatalogueOf(p)
      /\ object \in [Runs -> [Shards -> SUBSET Rows]] /\ (SkipIfExists' <=> SkipIfExists)
  BY BaseTypes, Steps, OptionsKept DEF Catalogue
<1>1. UNCHANGED <<options, source, at, prev, now, manifest, xcom>>
  BY Steps DEF ShardStep, SkipShard, EmptyShard, UploadShard, ShardFrame
<1>2. ASSUME NEW s \in Shards, result'[p][s] = "skipped" PROVE SkipIfExists
  <2>1. CASE result[p][s] = "skipped" BY <1>0, <2>1 DEF CatalogueOf
  <2>2. CASE result[p][s] # "skipped"
    BY <1>0, <1>2, <2>2 DEF ShardStep, SkipShard, EmptyShard, UploadShard
  <2> QED BY <2>1, <2>2
<1>3. SkippedListed(p)'
  <2>1. \A s \in Shards : object'[p][s] = object[p][s] \/ UploadShard(p, s)
    BY <1>0 DEF ShardStep, SkipShard, EmptyShard, UploadShard
  <2> QED BY <2>1, SkippedKept
<1> QED BY <1>0, <1>1, <1>2, <1>3 DEF CatalogueOf, ListedRows, InManifests, InManifest, UseQuery

\* The manifest of a try lists its window and what earlier dates list before it.
LEMMA CatalogueManifest ==
    ASSUME Base, Recorded, Catalogue, [Next]_vars,
           NEW r \in Runs, WriteManifest(r), NEW p \in Runs
    PROVE  CatalogueOf(p)'
<1> USE RunAssumption
<1>0. at \in [Runs -> States] /\ CatalogueOf(p) BY BaseTypes DEF Catalogue
<1>1. at[r] = "shards" /\ UNCHANGED <<source, prev, now, result, object, xcom>> BY DEF WriteManifest
<1>2. at'[r] \in {"commit", "failing"} /\ \A a \in Runs : a # r => at'[a] = at[a]
  BY <1>0 DEF WriteManifest
<1>3. /\ \A s \in Shards : \A x \in manifest'[r][s] : x <= source /\ x <= now[r]
      /\ \A a \in Runs : a # r => manifest'[a] = manifest[a]
  BY WrittenCatalogue
<1>4. CASE p # r BY <1>1, <1>2, <1>3, <1>4, CatalogueFrame
<1>5. CASE p = r
  <2>0. (UseQuery' <=> UseQuery) /\ (SkipIfExists' <=> SkipIfExists) BY Steps, OptionsKept
  <2>1. ListedRows(p)'
    <3>1. ~UseQuery => now[p] = p * Interval BY <1>1, <1>5, BaseTypes DEF WindowEnd
    <3> QED BY <1>1, <1>2, <1>3, <1>5, <2>0, <3>1 DEF ListedRows
  <2>2. InManifests(manifest', p, now'[p]) BY <1>1, <1>5, WindowListed
  <2>3. xcom'[p] # NoMark => InManifests(manifest', p, xcom'[p])
    <3>1. p \in 0..NumRuns /\ xcom[p] \in Int BY BaseTypes DEF Runs, Marks, NoMark
    <3> QED BY <1>0, <1>1, <3>1, ListedKept DEF CatalogueOf
  <2>4. SkippedListed(p)' BY <1>1, SkippedKept
  <2> QED BY <1>0, <1>1, <1>2, <1>5, <2>0, <2>1, <2>2, <2>3, <2>4
          DEF CatalogueOf, InManifests, InManifest
<1> QED BY <1>4, <1>5

\* Every step keeps it.
LEMMA CatalogueStep == Base /\ Recorded /\ Catalogue /\ [Next]_vars => Catalogue'
<1> SUFFICES ASSUME Base, Recorded, Catalogue, [Next]_vars, NEW p \in Runs
             PROVE  CatalogueOf(p)'
  BY Steps, OptionsKept DEF Catalogue, Compatible
<1>1. CASE UNCHANGED vars BY <1>1, CatalogueFrame DEF vars
<1> QED BY <1>1, Steps, CatalogueCommon, CatalogueShard, CatalogueManifest

\* The catalogue is never behind the watermark: every row up to a watermark in XCom
\* is in a file that some manifest lists (_write_manifest is done before
\* _commit_watermark, a retry writes the manifest of a later window, and a skipped
\* object is listed as it is).
THEOREM CatalogueIsNeverBehind == Compatible /\ Spec => []CatalogueCovers
<1>1. Init /\ Compatible => Catalogue
  <2> SUFFICES ASSUME Init, Compatible, NEW r \in Runs PROVE CatalogueOf(r)
    BY DEF Catalogue
  <2>1. SkippedListed(r)
    <3>1. \A x \in 1..(r * Interval) : ShardOf(x) \in Shards
      BY ShardOfRow, RunAssumption DEF Runs
    <3> QED BY <3>1 DEF Init, SkippedListed
  <2> QED BY <2>1 DEF Init, CatalogueOf, ListedRows, NoResults, NoMark
<1>2. Catalogue => CatalogueCovers
  BY DEF Catalogue, CatalogueOf, InManifests, InManifest, CatalogueCovers
<1> QED BY <1>1, <1>2, CatalogueStep, RecordedHolds, PTL DEF Spec
=============================================================================
